---- MODULE Spec2Model ----
(***************************************************************************)
(* Debug_Agent: the heuristic agent stack (StaticAnalysisAgent,            *)
(* TestDrivenRepairAgent, CoordinatorAgent with its DecisionEngine).       *)
(*                                                                         *)
(* Abstractions.                                                           *)
(*  - A code string is the sequence of its lines (code.split('\n')), each  *)
(*    line reduced to the pattern the analyzers and repair strategies      *)
(*    match on it ("plain", "long", "todo", "pwd", ...), together with     *)
(*    what ast.parse reports about the text: whether it parses and how     *)
(*    many function / class / loop / conditional nodes it has, and how     *)
(*    many of the decision engine's keywords occur in it.                  *)
(*  - Floats are exact rationals kept as integers: confidences in tenths,  *)
(*    decision factors in twentieths, strategy scores in 1/400ths,         *)
(*    complexity scores in tenths.                                         *)
(*  - A Python dict result is a record with a "kind" tag ("report" or      *)
(*    "error"); a key the dict does not carry is the value Absent.         *)
(***************************************************************************)
EXTENDS Integers, Sequences, FiniteSets, TLC

\* ---------------------------------------------------------------- bounds
MaxLines == 2      \* lines of the enumerated input codes
MaxCalls == 1      \* public agent calls in one behaviour
MaxIssues == 2     \* caller-supplied issues in one repair call
MaxSecurityLines == 7   \* SQL-injection lines of a scored text
MaxOtherLines == 3      \* TODO lines, string-concatenation lines of a scored text
MaxFunctions == 80      \* function declarations of a text handed to the test generator
MaxClasses == 2         \* class declarations of such a text
MaxCases == 2           \* test cases handed to the test runner directly
MaxGenerations == 2     \* generate_tests calls on one TestGenerator
MaxMemoryOps == 3       \* MemoryManager calls in one behaviour
MaxConfigOps == 4       \* configuration calls in one behaviour
MaxIntelligentCalls == 3    \* intelligent_analyze_and_repair calls in one behaviour

Absent == "absent"
None == "None"

\* ------------------------------------------------------------ enumerations
SeverityLevel == {"low", "medium", "high", "critical"}
IssueType == {"security", "quality", "performance", "logic", "style"}
AllStrategies == {"static_only", "test_driven_only", "hybrid", "auto"}
ComplexityLevel == 1..4

\* ------------------------------------------------------------------ codes
\* The line patterns.  "long" is a line of 101..180 characters, "vlong" a
\* longer one (the remainder of a split at column 80 is still over 100);
\* "longflip" is a long line whose split changes what ast.parse says about
\* the text (a split inside `else1` makes it parse, a split inside a comment
\* makes it fail); "pwdfixed" and "perffixed" are the lines the security and
\* the performance rewrite leave behind.
LineKinds == {"plain", "long", "vlong", "longflip", "todo", "pwd", "sql", "perf"}
RewrittenKinds == {"pwdfixed", "perffixed"}

RECURSIVE SeqsUpTo(_, _)
SeqsUpTo(S, n) ==
    IF n = 0 THEN {<<>>}
    ELSE LET shorter == SeqsUpTo(S, n - 1)
         IN  shorter \cup {Append(s, x) : s \in {t \in shorter : Len(t) = n - 1}, x \in S}

MkCode(ls, p, f, c, lo, co, kh, km) ==
    [lines |-> ls, parses |-> p, functions |-> f, classes |-> c,
     loops |-> lo, conditionals |-> co, kw_high |-> kh, kw_med |-> km]

Count(ls, kinds) == Cardinality({i \in DOMAIN ls : ls[i] \in kinds})

\* keywords of DecisionEngine._assess_potential_issue_severity the lines bring
LineKwHigh(ls) == IF Count(ls, {"pwd", "pwdfixed"}) > 0 THEN 1 ELSE 0
LineKwMed(ls) == IF Count(ls, {"todo"}) > 0 THEN 1 ELSE 0

\* "" : one empty line, parses, nothing in it
EmptyCode == MkCode(<<"empty">>, TRUE, 0, 0, 0, 0, 0, 0)

IsEmpty(code) == code.lines = <<"empty">>

\* The enumerated input codes: every parsing text of at most MaxLines lines
\* made of plain and over-long lines; ...
BaseKinds == {"plain", "long"}

SmallCodes ==
    {MkCode(ls, TRUE, 0, 0, 0, 0, 0, 0) : ls \in (SeqsUpTo(BaseKinds, MaxLines) \ {<<>>})}

\* ... a parsing one-line text of each other pattern; ...
OneLineCodes ==
    {MkCode(<<k>>, TRUE, 0, 0, 0, 0, LineKwHigh(<<k>>), LineKwMed(<<k>>)) :
        k \in (LineKinds \ BaseKinds)}

\* ... one-line texts that do not parse (`def invalid_syntax(`); ...
UnparsableCodes ==
    {MkCode(<<k>>, FALSE, 0, 0, 0, 0, 0, 0) : k \in {"plain", "long", "longflip"}}

\* ... `def f(): pass`; ...
FunctionCode == MkCode(<<"plain">>, TRUE, 1, 0, 0, 0, 0, 0)
\* ... 30 one-line functions (complexity HIGH for the coordinator); ...
BigCode == MkCode([i \in 1..30 |-> "plain"], TRUE, 30, 0, 0, 0, 0, 0)
\* ... and a short text naming password, secret, token and temp.
KeywordCode == MkCode(<<"plain">>, TRUE, 0, 0, 0, 0, 3, 1)

Codes ==
    SmallCodes \cup OneLineCodes \cup UnparsableCodes
    \cup {EmptyCode, FunctionCode, BigCode, KeywordCode}

\* Texts for the score: ns lines with an SQL-injection pattern, then nq TODO
\* lines, then np string-concatenation lines (one plain line when all are 0).
CountedLines(ns, nq, np) ==
    IF ns + nq + np = 0 THEN <<"plain">>
    ELSE [i \in 1..(ns + nq + np) |->
            IF i <= ns THEN "sql" ELSE IF i <= ns + nq THEN "todo" ELSE "perf"]

ScoreCodes ==
    Codes \cup
    {MkCode(CountedLines(ns, nq, np), TRUE, 0, 0, 0, 0, 0, LineKwMed(CountedLines(ns, nq, np))) :
        ns \in 0..MaxSecurityLines, nq \in 0..MaxOtherLines, np \in 0..MaxOtherLines}

\* ------------------------------------------------------------------ issues
\* An issue record.  quality_metric, vulnerability_type and performance_metric
\* are the fields of the QualityIssue / SecurityIssue / PerformanceIssue
\* subclasses (Absent on a record of another class); meta_vulnerability_type
\* and meta_performance_metric are the entries of the open metadata map.
MkIssue(t, ln, sev, conf, qm, vt, pm, mvt, mpm) ==
    [issue_type |-> t, line_number |-> ln, severity |-> sev, confidence |-> conf,
     quality_metric |-> qm, vulnerability_type |-> vt, performance_metric |-> pm,
     meta_vulnerability_type |-> mvt, meta_performance_metric |-> mpm]

\* --------------------------------------------------------------- analyzers
RECURSIVE IssuesFrom(_, _, _)

\* a security analyzer that puts the discriminant into the metadata map
SecurityLineIssuesMeta(i, line) ==
    IF line \in {"pwd", "pwdfixed"}
    THEN <<MkIssue("security", i, "high", 8, Absent, "hardcoded_credentials", Absent,
                   "hardcoded_credentials", Absent)>>
    ELSE <<>>

SecurityLineIssues(i, line) ==
    (IF line \in {"pwd", "pwdfixed"}
        THEN <<MkIssue("security", i, "high", 8, Absent, "hardcoded_credentials", Absent, Absent, Absent)>>
        ELSE <<>>)
    \o
    (IF line = "sql"
        THEN <<MkIssue("security", i, "high", 7, Absent, "sql_injection", Absent, Absent, Absent)>>
        ELSE <<>>)

SecurityAnalyzer(code) == IssuesFrom("security", code.lines, 1)

QualityLineIssues(i, line) ==
    (IF line = "todo"
        THEN <<MkIssue("quality", i, "low", 9, "code_comments", Absent, Absent, Absent, Absent)>>
        ELSE <<>>)
    \o
    (IF line \in {"long", "vlong", "longflip"}
        THEN <<MkIssue("quality", i, "low", 8, "line_length", Absent, Absent, Absent, Absent)>>
        ELSE <<>>)

QualityAnalyzer(code) == IssuesFrom("quality", code.lines, 1)

PerformanceLineIssues(i, line) ==
    IF line \in {"perf", "perffixed"}
        THEN <<MkIssue("performance", i, "medium", 6, Absent, Absent, "string_concatenation", Absent, Absent)>>
        ELSE <<>>

\* for i, line in enumerate(lines, 1): the issues of lines from..Len(ls)
IssuesFrom(analyzer, ls, from) ==
    IF from > Len(ls) THEN <<>>
    ELSE (CASE analyzer = "security" -> SecurityLineIssues(from, ls[from])
            [] analyzer = "quality" -> QualityLineIssues(from, ls[from])
            [] analyzer = "performance" -> PerformanceLineIssues(from, ls[from]))
         \o IssuesFrom(analyzer, ls, from + 1)

PerformanceAnalyzer(code) == IssuesFrom("performance", code.lines, 1)

\* ------------------------------------------------------ StaticAnalysisAgent
severity_weights(sev) ==
    CASE sev = "low" -> 1 [] sev = "medium" -> 2 [] sev = "high" -> 3
      [] sev = "critical" -> 5 [] OTHER -> 1

Max(a, b) == IF a > b THEN a ELSE b
Min(a, b) == IF a < b THEN a ELSE b

\* total_penalty += weight * factor, over the issues of one category
RECURSIVE TotalPenalty(_, _)
TotalPenalty(issues, factor) ==
    IF issues = <<>> THEN 0
    ELSE severity_weights(Head(issues).severity) * factor + TotalPenalty(Tail(issues), factor)

calculate_overall_score_unclamped(sec, qual, perf) ==
    100 - (TotalPenalty(sec, 5) + TotalPenalty(qual, 2) + TotalPenalty(perf, 3))

calculate_overall_score(sec, qual, perf) ==
    Max(0, 100 - (TotalPenalty(sec, 5) + TotalPenalty(qual, 2) + TotalPenalty(perf, 3)))

\* StaticAnalysisAgent._assess_complexity: bucketed counts, MEDIUM when
\* ast.parse fails
StaticAssessComplexity(code) ==
    IF ~code.parses THEN 2
    ELSE IF Len(code.lines) < 50 /\ code.functions <= 3 /\ code.classes <= 1 THEN 1
    ELSE IF Len(code.lines) < 200 /\ code.functions <= 10 /\ code.classes <= 5 THEN 2
    ELSE IF Len(code.lines) < 500 /\ code.functions <= 20 /\ code.classes <= 10 THEN 3
    ELSE 4

\* BaseAgent.validate_input on a str: non-empty
validate_input(code) == ~IsEmpty(code)

ErrorMap(agent, err) == [kind |-> "error", success |-> FALSE, agent |-> agent, error |-> err]

\* The map StaticAnalysisAgent.analyze returns for a code string.
StaticResult(code) ==
    IF ~validate_input(code) THEN ErrorMap("StaticAnalysisAgent", "AnalysisException")
    ELSE LET sec == SecurityAnalyzer(code)
             qual == QualityAnalyzer(code)
             perf == PerformanceAnalyzer(code)
         IN  [kind |-> "report",
              complexity_level |-> StaticAssessComplexity(code),
              security_issues |-> sec, quality_issues |-> qual, performance_issues |-> perf,
              overall_score |-> calculate_overall_score(sec, qual, perf)]

\* one record of execution_history; has_issues_found tells whether the
\* recorded map carries an issues_found key
HistoryRecord(op, success, has, n) ==
    [operation |-> op, success |-> success, has_issues_found |-> has, issues_found |-> n]

\* BaseAgent.record_execution on an agent state [execution_history, issues_found]
record_execution(agent, op, success, has, n) ==
    [execution_history |-> Append(agent.execution_history, HistoryRecord(op, success, has, n)),
     issues_found |-> IF has THEN agent.issues_found + n ELSE agent.issues_found]

\* metrics.issues_found is overwritten with the total, then record_execution
\* adds the total again
StaticRecorded(agent, total) ==
    record_execution([agent EXCEPT !.issues_found = total], "static_analysis", TRUE, TRUE, total)

\* the static agent once analyze has returned r: the validate_input
\* rejection returns before anything is recorded
StaticAgentWith(agent, r) ==
    IF r.kind = "error" THEN agent
    ELSE StaticRecorded(agent, Len(r.security_issues) + Len(r.quality_issues)
                                + Len(r.performance_issues))

\* The static agent after analyze(code).
StaticAgentAfter(agent, code) == StaticAgentWith(agent, StaticResult(code))

\* -------------------------------------------------------- repair strategies
\* lines[issue.line_number - 1]: the 1-based position read, 0 for IndexError
\* (a negative index counts from the end)
LineIndex(code, ln) ==
    LET n == Len(code.lines)
        idx == ln - 1
    IN  IF idx >= 0 /\ idx < n THEN idx + 1
        ELSE IF idx < 0 /\ idx >= -n THEN n + idx + 1
        ELSE 0

\* a slice bound as Python normalises it: negative counts from the end,
\* clamped to 0..n
SliceBound(n, i) == IF i < 0 THEN Max(0, n + i) ELSE Min(n, i)

\* lines[a:b] = new
SliceAssign(ls, a, b, new) ==
    LET n == Len(ls)
        start == SliceBound(n, a)
        stop == Max(start, SliceBound(n, b))
    IN  SubSeq(ls, 1, start) \o new \o SubSeq(ls, stop + 1, n)

RepairMiss(code, strategy_name, conf) ==
    [raised |-> FALSE, success |-> FALSE, repaired_code |-> code,
     confidence |-> conf, repair_strategy |-> strategy_name]

RepairRaise(code) ==
    [raised |-> TRUE, success |-> FALSE, repaired_code |-> code,
     confidence |-> 0, repair_strategy |-> "raised"]

RepairHit(code, strategy_name, conf) ==
    [raised |-> FALSE, success |-> TRUE, repaired_code |-> code,
     confidence |-> conf, repair_strategy |-> strategy_name]

\* the password regular expression rewrites a `password = "literal"` line
SecurityRewrite(line) == IF line = "pwd" THEN "pwdfixed" ELSE line

SecurityRepairStrategy(code, issue) ==
    LET pos == LineIndex(code, issue.line_number)
    IN  IF pos = 0 THEN RepairRaise(code)
        ELSE IF issue.meta_vulnerability_type = "hardcoded_credentials"
        THEN RepairHit([code EXCEPT !.lines[pos] = SecurityRewrite(@)], "security_replacement", 8)
        ELSE RepairMiss(code, "security_none", 0)

\* original_line[:80] + " \", then the indented remainder
SplitLine(line) == IF line = "vlong" THEN <<"plain", "long">> ELSE <<"plain", "plain">>

QualityRepairStrategy(code, issue) ==
    LET pos == LineIndex(code, issue.line_number)
    IN  IF pos = 0 THEN RepairRaise(code)
        ELSE IF issue.quality_metric = "line_length"
                /\ code.lines[pos] \in {"long", "vlong", "longflip"}
        THEN RepairHit([code EXCEPT
                          !.lines = SliceAssign(@, issue.line_number - 1, issue.line_number,
                                                SplitLine(code.lines[pos])),
                          !.parses = IF code.lines[pos] = "longflip" THEN ~@ ELSE @],
                       "quality_formatting", 9)
        ELSE RepairMiss(code, "quality_none", 0)

\* the join regular expression rewrites a `s += "" + x + ""` line
PerformanceRewrite(line) == IF line = "perf" THEN "perffixed" ELSE line

PerformanceRepairStrategy(code, issue) ==
    LET pos == LineIndex(code, issue.line_number)
    IN  IF pos = 0 THEN RepairRaise(code)
        ELSE IF issue.meta_performance_metric = "string_concatenation"
                /\ code.lines[pos] \in {"perf", "perffixed"}
        THEN RepairHit([code EXCEPT !.lines[pos] = PerformanceRewrite(@)], "performance_optimization", 7)
        ELSE RepairMiss(code, "performance_none", 0)

LogicRepairStrategy(code, issue) == RepairMiss(code, "logic_manual", 1)

\* the strategies of _initialize_repair_strategies
RepairStrategyNames == {"security", "quality", "performance", "logic"}

StrategyRepair(name, code, issue) ==
    CASE name = "security" -> SecurityRepairStrategy(code, issue)
      [] name = "quality" -> QualityRepairStrategy(code, issue)
      [] name = "performance" -> PerformanceRepairStrategy(code, issue)
      [] name = "logic" -> LogicRepairStrategy(code, issue)

\* whether the issue carries the discriminant the strategy's applicability
\* test looks for (the outer `if` of each repair method)
Recognizes(name, issue) ==
    CASE name = "security" -> issue.meta_vulnerability_type = "hardcoded_credentials"
      [] name = "quality" -> issue.quality_metric = "line_length"
      [] name = "performance" -> issue.meta_performance_metric = "string_concatenation"
      [] name = "logic" -> FALSE

\* the try block of _repair_issue around strategy.repair: an exception
\* becomes a failed RepairResult named after the strategy type
CaughtRepair(code, strategy_type, r) ==
    IF r.raised THEN RepairMiss(code, strategy_type, 0) ELSE r

\* TestDrivenRepairAgent._repair_issue
repair_issue(code, issue) ==
    IF issue.issue_type \notin RepairStrategyNames
    THEN RepairMiss(code, "none", 0)
    ELSE CaughtRepair(code, issue.issue_type, StrategyRepair(issue.issue_type, code, issue))

\* ---------------------------------------------------- TestDrivenRepairAgent
max_test_cases == 50

\* TestGenerator.generate_tests: the number of cases (all of type UNIT): one
\* per function and class declaration, cut at max_test_cases; one generic
\* case when the code does not parse
generate_tests(code) ==
    IF code.parses THEN Min(max_test_cases, code.functions + code.classes) ELSE 1

\* TestRunner.run_tests: a unit test passes when the code parses and fails on
\* a SyntaxError
run_tests(n, code) ==
    [total_tests |-> n,
     passed_tests |-> IF code.parses THEN n ELSE 0,
     failed_tests |-> IF code.parses THEN 0 ELSE n,
     error_tests |-> 0]

\* the issues argument: None, or a list
NoIssues == [given |-> FALSE, list |-> <<>>]
IssueList(l) == [given |-> TRUE, list |-> l]

\* _identify_issues_from_tests: one logic issue per failed detail
identify_issues_from_tests(test_results) ==
    [i \in 1..test_results.failed_tests |->
        MkIssue("logic", 0, "high", 7, Absent, Absent, Absent, Absent, Absent)]

\* the repair loop of analyze_and_repair (lines 72-80)
RECURSIVE RepairLoop(_, _, _)

\* a loop body that leaves the loop at the first repair that does not succeed
RepairStepStops(rest, current_code, repair_results, repair_result) ==
    IF repair_result.success
    THEN RepairLoop(rest, repair_result.repaired_code, Append(repair_results, repair_result))
    ELSE [current_code |-> current_code, repair_results |-> repair_results]

\* the loop body once _repair_issue has returned repair_result
RepairStep(rest, current_code, repair_results, repair_result) ==
    IF repair_result.success
    THEN RepairLoop(rest, repair_result.repaired_code, Append(repair_results, repair_result))
    ELSE RepairLoop(rest, current_code, repair_results)

RepairLoop(issues, current_code, repair_results) ==
    IF issues = <<>>
    THEN [current_code |-> current_code, repair_results |-> repair_results]
    ELSE RepairStep(Tail(issues), current_code, repair_results,
                    repair_issue(current_code, Head(issues)))

\* whether, in that loop, a strategy raised into the except branch of
\* _repair_issue (the only RepairResult whose repair_strategy is the bare
\* strategy type)
RECURSIVE StrategyRaised(_, _)

RaisedStep(rest, current_code, repair_result) ==
    \/ repair_result.repair_strategy \in RepairStrategyNames
    \/ StrategyRaised(rest, IF repair_result.success THEN repair_result.repaired_code
                            ELSE current_code)

StrategyRaised(issues, current_code) ==
    IF issues = <<>> THEN FALSE
    ELSE RaisedStep(Tail(issues), current_code, repair_issue(current_code, Head(issues)))

\* line 93: repair_success
RepairSuccessAny(repair_results, test_results, final_test_results) ==
    Len(repair_results) > 0

RepairSuccess(repair_results, test_results, final_test_results) ==
    /\ Len(repair_results) > 0
    /\ final_test_results.failed_tests < test_results.failed_tests

\* _calculate_improvement reads initial_results.passed_results; reading a
\* field the TestResults record does not have raises AttributeError
calculate_improvement(initial_results, final_results) ==
    IF "passed_results" \notin DOMAIN initial_results
    THEN [raised |-> TRUE, failed_tests_reduction |-> 0, passed_tests_increase |-> 0]
    ELSE [raised |-> FALSE,
          failed_tests_reduction |-> initial_results.failed_tests - final_results.failed_tests,
          passed_tests_increase |-> final_results.passed_tests - initial_results.passed_results]

\* sum(rr.confidence for rr in repair_results), in tenths
RECURSIVE SumConfidence(_)
SumConfidence(repair_results) ==
    IF repair_results = <<>> THEN 0
    ELSE Head(repair_results).confidence + SumConfidence(Tail(repair_results))

\* _calculate_repair_confidence, in hundredths
calculate_repair_confidence(repair_results) ==
    IF repair_results = <<>> THEN 0
    ELSE (10 * SumConfidence(repair_results)) \div Len(repair_results)

\* the locals of a run that stopped before the repair loop
NoLocals(code) ==
    [looped |-> FALSE, issues |-> <<>>, current_code |-> code, repair_results |-> <<>>,
     strategy_raised |-> FALSE, initial_failed |-> 0, final_failed |-> 0,
     repair_success |-> FALSE]

\* analyze_and_repair from line 82 on: the second test run is done, the
\* report is built and recorded; _calculate_improvement raises while the
\* report is built.
TDRFinish(agent, code, issues, test_cases, test_results, loop, final_test_results) ==
    LET repair_success == RepairSuccess(loop.repair_results, test_results, final_test_results)
        improvement == calculate_improvement(test_results, final_test_results)
        locals == [looped |-> TRUE, issues |-> issues, current_code |-> loop.current_code,
                   repair_results |-> loop.repair_results,
                   strategy_raised |-> StrategyRaised(issues, code),
                   initial_failed |-> test_results.failed_tests,
                   final_failed |-> final_test_results.failed_tests,
                   repair_success |-> repair_success]
    IN  IF improvement.raised
        THEN [result |-> ErrorMap("TestDrivenRepairAgent", "AttributeError"),
              locals |-> locals,
              agent |-> record_execution(agent, "test_driven_repair", FALSE, FALSE, 0)]
        ELSE [result |-> [kind |-> "report",
                          original_code |-> code,
                          repaired_code |-> loop.current_code,
                          generated_tests |-> test_cases,
                          initial_test_results |-> test_results,
                          final_test_results |-> final_test_results,
                          applied_repairs |-> loop.repair_results,
                          repair_success |-> repair_success,
                          improvement_metrics |-> improvement,
                          confidence |-> calculate_repair_confidence(loop.repair_results)],
              locals |-> locals,
              agent |-> record_execution([agent EXCEPT !.issues_found = Len(issues)],
                                         "test_driven_repair", repair_success, FALSE, 0)]

\* analyze_and_repair from line 72 on: the repair loop over issues, then the
\* second test run
TDRRepair(agent, code, issues, test_cases, test_results) ==
    TDRFinish(agent, code, issues, test_cases, test_results,
              RepairLoop(issues, code, <<>>),
              run_tests(test_cases, RepairLoop(issues, code, <<>>).current_code))

\* analyze_and_repair from line 68 on: the first test run is done
TDRTested(agent, code, issues_arg, test_cases, test_results) ==
    LET not_issues == ~issues_arg.given \/ issues_arg.list = <<>>
        identified == not_issues /\ test_results.failed_tests > 0
    IN  IF ~(identified \/ issues_arg.given)
        THEN \* for issue in None: TypeError
             [result |-> ErrorMap("TestDrivenRepairAgent", "TypeError"),
              locals |-> NoLocals(code),
              agent |-> record_execution(agent, "test_driven_repair", FALSE, FALSE, 0)]
        ELSE TDRRepair(agent, code,
                       IF identified THEN identify_issues_from_tests(test_results)
                       ELSE issues_arg.list,
                       test_cases, test_results)

\* One execution of TestDrivenRepairAgent.analyze_and_repair(code, issues):
\* the map it returns, its locals when it left the try block, and the agent
\* state after record_execution.
TDRRun(agent, code, issues_arg) ==
    TDRTested(agent, code, issues_arg, generate_tests(code),
              run_tests(generate_tests(code), code))

\* ------------------------------------------------------------ file paths
\* A file path argument: None (or ""), or a path reduced to the number of
\* the decision engine's important keywords in it and the file type its
\* extension maps to.
NoPath == [given |-> FALSE, important |-> 0, file_type |-> "unknown"]
Path(n, t) == [given |-> TRUE, important |-> n, file_type |-> t]

\* ---------------------------------------------------------- DecisionEngine
\* the AnalysisContext fields the engine reads
MkContext(code, file_path, level) ==
    [code |-> code, file_path |-> file_path, complexity_level |-> level,
     file_type |-> file_path.file_type]

\* factors in twentieths
assess_file_importance(file_path) ==
    IF ~file_path.given THEN 10 ELSE Min(20, 10 + 2 * file_path.important)

assess_potential_issue_severity(code) == Min(20, 4 * code.kw_high + 2 * code.kw_med)

assess_performance_requirements(context) ==
    IF context.file_type \in {"python", "javascript", "java"}
    THEN Min(20, 5 * context.complexity_level)
    ELSE 6

assess_testing_coverage(context) == Min(20, 5 * context.complexity_level)

extract_decision_factors(context) ==
    [cached |-> TRUE,
     code_complexity |-> 5 * context.complexity_level,
     file_importance |-> assess_file_importance(context.file_path),
     issue_severity |-> assess_potential_issue_severity(context.code),
     performance_requirements |-> assess_performance_requirements(context),
     testing_coverage |-> assess_testing_coverage(context)]

\* last_decision_factors = None
NoFactors ==
    [cached |-> FALSE, code_complexity |-> 0, file_importance |-> 0, issue_severity |-> 0,
     performance_requirements |-> 0, testing_coverage |-> 0]

Abs(x) == IF x < 0 THEN -x ELSE x

\* scores in 1/400
calculate_static_score_plain(factors) ==
    (20 - factors.code_complexity) * 12 + 160

calculate_static_score(factors) ==
    (20 - factors.code_complexity) * 12 + (20 - factors.issue_severity) * 8

calculate_test_driven_score(factors) ==
    factors.code_complexity * 10 + factors.testing_coverage * 10

calculate_hybrid_score(factors) ==
    (20 - Abs(factors.code_complexity - 10)) * 8
    + Min(40, factors.code_complexity + factors.issue_severity) * 6

\* the scores dict, in insertion order
StrategyOrder == <<"static_only", "test_driven_only", "hybrid">>

Scores(factors) ==
    [static_only |-> calculate_static_score(factors),
     test_driven_only |-> calculate_test_driven_score(factors),
     hybrid |-> calculate_hybrid_score(factors)]

ArgMin(scores) ==
    LET best == CHOOSE i \in 1..3 :
                    /\ \A j \in 1..3 : scores[StrategyOrder[j]] >= scores[StrategyOrder[i]]
                    /\ \A j \in 1..(i - 1) : scores[StrategyOrder[j]] > scores[StrategyOrder[i]]
    IN  StrategyOrder[best]

\* max(scores, key=scores.get): the first key, in insertion order, whose
\* score no other key exceeds
ArgMax(scores) ==
    LET best == CHOOSE i \in 1..3 :
                    /\ \A j \in 1..3 : scores[StrategyOrder[j]] <= scores[StrategyOrder[i]]
                    /\ \A j \in 1..(i - 1) : scores[StrategyOrder[j]] < scores[StrategyOrder[i]]
    IN  StrategyOrder[best]

make_strategy_decision_cached(last_decision_factors, context) ==
    LET factors == IF last_decision_factors.cached THEN last_decision_factors
                   ELSE extract_decision_factors(context)
    IN  [strategy |-> ArgMax(Scores(factors)), last_decision_factors |-> factors]

\* DecisionEngine.make_strategy_decision: the strategy returned and the
\* factor map left in last_decision_factors
make_strategy_decision(last_decision_factors, context) ==
    LET factors == extract_decision_factors(context)
    IN  [strategy |-> ArgMax(Scores(factors)), last_decision_factors |-> factors]

\* -------------------------------------------------------- CoordinatorAgent
\* CoordinatorAgent._assess_complexity: the weighted score, in tenths;
\* MEDIUM when ast.parse fails
CoordAssessComplexity(code) ==
    IF ~code.parses THEN 2
    ELSE LET complexity_score == Len(code.lines) + 20 * code.functions + 30 * code.classes
                                 + 15 * code.loops + 10 * code.conditionals
         IN  IF complexity_score < 200 THEN 1
             ELSE IF complexity_score < 500 THEN 2
             ELSE IF complexity_score < 1000 THEN 3
             ELSE 4

create_analysis_context(code, file_path) ==
    MkContext(code, file_path, CoordAssessComplexity(code))

NoneMap == [kind |-> "none"]

\* static_result.get('security_issues', []) + ... of a static-analysis map
AllIssues(static_result) ==
    IF static_result.kind = "report"
    THEN static_result.security_issues \o static_result.quality_issues
            \o static_result.performance_issues
    ELSE <<>>

\* repair_result.get(key, default) for the keys the workflows read
GetRepairedCode(repair_result, default) ==
    IF repair_result.kind = "report" THEN repair_result.repaired_code ELSE default
GetRepairSuccess(repair_result) ==
    IF repair_result.kind = "report" THEN repair_result.repair_success ELSE FALSE
GetAppliedRepairs(repair_result) ==
    IF repair_result.kind = "report" THEN repair_result.applied_repairs ELSE <<>>

\* the repair agent was not run
NoRun(repair_agent, code) ==
    [result |-> NoneMap, locals |-> NoLocals(code), agent |-> repair_agent]

WorkflowResult(strategy, initial, final, repair_result, final_code, total, success, applied) ==
    [kind |-> "report", strategy |-> strategy,
     static_initial |-> initial, static_final |-> final,
     repair_results |-> repair_result, final_code |-> final_code,
     total_issues |-> total, overall_success |-> success, applied_repairs |-> applied]

\* Each workflow gives the result map, the two sub-agents after it, whether
\* the repair agent ran and the locals of that run.
execute_static_only_workflow_clean(static_agent, repair_agent, code) ==
    LET static_result == StaticResult(code)
        all_issues == AllIssues(static_result)
    IN  [result |-> WorkflowResult("STATIC_ONLY", static_result, NoneMap, NoneMap, code,
                                   Len(all_issues), Len(all_issues) = 0, <<>>),
         static_agent |-> StaticAgentAfter(static_agent, code),
         repair_agent |-> repair_agent,
         repair_ran |-> FALSE, locals |-> NoLocals(code)]

execute_static_only_workflow(static_agent, repair_agent, code) ==
    LET static_result == StaticResult(code)
        all_issues == AllIssues(static_result)
    IN  [result |-> WorkflowResult("STATIC_ONLY", static_result, NoneMap, NoneMap, code,
                                   Len(all_issues), TRUE, <<>>),
         static_agent |-> StaticAgentAfter(static_agent, code),
         repair_agent |-> repair_agent,
         repair_ran |-> FALSE, locals |-> NoLocals(code)]

\* _execute_test_driven_workflow once the repair agent has returned
TestDrivenResult(static_agent, code, run) ==
    [result |-> WorkflowResult("TEST_DRIVEN_ONLY", NoneMap, NoneMap, run.result,
                               GetRepairedCode(run.result, code),
                               Len(GetAppliedRepairs(run.result)),
                               GetRepairSuccess(run.result),
                               GetAppliedRepairs(run.result)),
     static_agent |-> static_agent,
     repair_agent |-> run.agent,
     repair_ran |-> TRUE, locals |-> run.locals]

execute_test_driven_workflow(static_agent, repair_agent, code) ==
    TestDrivenResult(static_agent, code, TDRRun(repair_agent, code, NoIssues))

\* `if all_issues:` (line 296)
ShouldRepairAlways(all_issues) == TRUE

ShouldRepair(all_issues) == all_issues # <<>>

\* _execute_hybrid_workflow from line 303 on: the repair step is over
HybridResult(static_agent, code, static_result, repaired, run) ==
    LET final_code == IF repaired THEN GetRepairedCode(run.result, code) ELSE code
        reanalysed == final_code # code
        after_first == StaticAgentWith(static_agent, static_result)
    IN  [result |-> WorkflowResult("HYBRID", static_result,
                                   IF reanalysed THEN StaticResult(final_code) ELSE NoneMap,
                                   run.result, final_code, Len(AllIssues(static_result)),
                                   /\ Len(AllIssues(static_result)) > 0
                                   /\ (IF repaired THEN GetRepairSuccess(run.result) ELSE TRUE),
                                   IF repaired THEN GetAppliedRepairs(run.result) ELSE <<>>),
         static_agent |-> IF reanalysed THEN StaticAgentAfter(after_first, final_code)
                          ELSE after_first,
         repair_agent |-> run.agent,
         repair_ran |-> repaired, locals |-> run.locals]

\* _execute_hybrid_workflow from line 293 on: the first static analysis is
\* done
HybridRepair(static_agent, repair_agent, code, static_result) ==
    HybridResult(static_agent, code, static_result, ShouldRepair(AllIssues(static_result)),
                 IF ShouldRepair(AllIssues(static_result))
                 THEN TDRRun(repair_agent, code, IssueList(AllIssues(static_result)))
                 ELSE NoRun(repair_agent, code))

execute_hybrid_workflow(static_agent, repair_agent, code) ==
    HybridRepair(static_agent, repair_agent, code, StaticResult(code))

\* the strategy argument: a Strategy member, None, or another object (the
\* context dict that analyze passes in the strategy position)
StrategyArgs == AllStrategies \cup {None, "empty_dict", "nonempty_dict"}
IsStrategy(s) == s \in AllStrategies
Truthy(s) == s \notin {None, "empty_dict"}

\* lines 66-71: the workflow of the strategy
Workflow(strategy, static_agent, repair_agent, code) ==
    CASE strategy = "static_only" ->
            execute_static_only_workflow(static_agent, repair_agent, code)
      [] strategy = "test_driven_only" ->
            execute_test_driven_workflow(static_agent, repair_agent, code)
      [] OTHER -> execute_hybrid_workflow(static_agent, repair_agent, code)

\* lines 73-95: the workflow has returned wf; metrics are updated, the
\* execution is recorded and the result is returned
CoordReturn(coordinator, strategy, engine, wf) ==
    [raised |-> FALSE,
     result |-> wf.result,
     strategy_used |-> strategy,
     coordinator |-> record_execution(
                        [coordinator EXCEPT !.issues_found = wf.result.total_issues],
                        "coordination", wf.result.overall_success,
                        TRUE, wf.result.total_issues),
     static_agent |-> wf.static_agent, repair_agent |-> wf.repair_agent,
     engine |-> engine, repair_ran |-> wf.repair_ran, locals |-> wf.locals]

\* lines 97-105: `strategy.value` raised AttributeError in the try block.
\* The handler reports "unknown" for a falsy strategy; for a truthy one it
\* evaluates strategy.value again and the AttributeError leaves the method.
CoordExcept(coordinator, static_agent, repair_agent, engine, code, strategy_arg) ==
    [raised |-> Truthy(strategy_arg),
     result |-> IF Truthy(strategy_arg) THEN NoneMap
                ELSE ErrorMap("CoordinatorAgent", "AttributeError"),
     strategy_used |-> "unknown",
     coordinator |-> IF Truthy(strategy_arg) THEN coordinator
                     ELSE record_execution(coordinator, "coordination", FALSE, FALSE, 0),
     static_agent |-> static_agent, repair_agent |-> repair_agent,
     engine |-> engine, repair_ran |-> FALSE, locals |-> NoLocals(code)]

\* the strategy run and the engine state after lines 59-61
Decided(engine, strategy_arg, decision) ==
    IF strategy_arg = "auto"
    THEN [strategy |-> decision.strategy, engine |-> decision.last_decision_factors]
    ELSE [strategy |-> strategy_arg, engine |-> engine]

\* analyze_and_repair from line 63 on, for a Strategy member
CoordDispatch(coordinator, static_agent, repair_agent, code, decided) ==
    CoordReturn(coordinator, decided.strategy, decided.engine,
                Workflow(decided.strategy, static_agent, repair_agent, code))

\* One execution of CoordinatorAgent.analyze_and_repair(code, file_path,
\* strategy): raised tells that an exception left the method.
CoordRun(coordinator, static_agent, repair_agent, engine, code, file_path, strategy_arg) ==
    IF IsStrategy(strategy_arg)
    THEN CoordDispatch(coordinator, static_agent, repair_agent, code,
                       Decided(engine, strategy_arg,
                               make_strategy_decision(engine,
                                                      create_analysis_context(code, file_path))))
    ELSE CoordExcept(coordinator, static_agent, repair_agent, engine, code, strategy_arg)

\* ------------------------------------------------------------ the inputs
\* caller-supplied issues: each strategy's issue with and without the
\* discriminant its applicability test reads, on every line number from 0
\* to one past the longest enumerated code; logic and style issues
LineNumbers == 0..(MaxLines + 1)

CallerIssues ==
    {MkIssue("security", ln, "high", 8, Absent, "hardcoded_credentials", Absent, m, Absent) :
        ln \in LineNumbers, m \in {Absent, "hardcoded_credentials"}}
    \cup {MkIssue("quality", ln, "low", 8, q, Absent, Absent, Absent, Absent) :
        ln \in LineNumbers, q \in {"code_comments", "line_length"}}
    \cup {MkIssue("performance", ln, "medium", 6, Absent, Absent, "string_concatenation", Absent, m) :
        ln \in LineNumbers, m \in {Absent, "string_concatenation"}}
    \cup {MkIssue("logic", 0, "high", 7, Absent, Absent, Absent, Absent, Absent),
          MkIssue("style", 0, "low", 5, Absent, Absent, Absent, Absent, Absent)}

\* the issues each strategy's applicability test accepts, and logic and
\* style issues
ListIssues ==
    {i \in CallerIssues :
        \/ i.issue_type \in {"logic", "style"}
        \/ i.meta_vulnerability_type = "hardcoded_credentials"
        \/ i.quality_metric = "line_length"
        \/ i.meta_performance_metric = "string_concatenation"}

\* the issues argument: None, a list of at most MaxIssues of those, or a
\* list of any one caller-supplied issue
IssueArgs ==
    {NoIssues} \cup {IssueList(l) : l \in SeqsUpTo(ListIssues, MaxIssues)}
    \cup {IssueList(<<i>>) : i \in CallerIssues}

FilePaths == {NoPath, Path(1, "python")}

\* the AnalysisContext values handed to a decision engine
DecisionContexts ==
    {MkContext(MkCode(<<"plain">>, TRUE, 0, 0, 0, 0, kh, km), fp, level) :
        kh \in 0..5, km \in 0..4, level \in ComplexityLevel,
        fp \in {NoPath, Path(1, "python"), Path(0, "unknown")}}

\* an earlier decision of the same engines
EarlierContext == MkContext(BigCode, Path(2, "python"), 3)

\* ------------------------------------ TestGenerator, TestRunner on their own
TestType == {"unit", "integration", "functional"}

\* what ast.parse does on a text: returns a tree, raises SyntaxError, or
\* raises another exception (RecursionError on a deeply nested expression)
ParseOutcomes == {"ok", "SyntaxError", "RecursionError"}

\* A text as the generator and the runner read it: the outcome of ast.parse
\* and the FunctionDef / ClassDef nodes of the tree in ast.walk order.
MkSource(outcome, decls) == [outcome |-> outcome, decls |-> decls]

\* A TestCase: its id and test_type.  The id of a generated case names the
\* node it was generated for and the value of test_counter it embeds.
TestId(kind, node, counter) == [kind |-> kind, node |-> node, counter |-> counter]
TestCase(id, test_type) == [id |-> id, test_type |-> test_type]

FunctionsUpTo(decls, k) == Cardinality({i \in 1..k : decls[i] = "function"})

\* the case appended for the k-th node of the walk: _generate_function_test
\* increments test_counter and embeds it, _generate_class_tests does not
GeneratedCase(decls, k, test_counter) ==
    IF decls[k] = "function"
    THEN TestCase(TestId("function", k, test_counter + FunctionsUpTo(decls, k)), "unit")
    ELSE TestCase(TestId("class_init", k, 0), "unit")

\* test_cases before the cut
AllGenerated(source, test_counter) ==
    IF source.outcome = "ok"
    THEN [k \in 1..Len(source.decls) |-> GeneratedCase(source.decls, k, test_counter)]
    ELSE <<TestCase(TestId("generic", 0, test_counter + 1), "unit")>>

Untruncated(test_cases, max_tests) == test_cases

\* test_cases[:max_tests]
Truncate(test_cases, max_tests) == SubSeq(test_cases, 1, Min(max_tests, Len(test_cases)))

\* TestGenerator.generate_tests: the list returned and test_counter afterwards
generate_test_cases(source, test_counter) ==
    [test_cases |-> Truncate(AllGenerated(source, test_counter), max_test_cases),
     test_counter |-> IF source.outcome = "ok"
                      THEN test_counter + FunctionsUpTo(source.decls, Len(source.decls))
                      ELSE test_counter + 1]

\* TestRunner._execute_unit_test inside _run_single_test: the status of the
\* detail record (an exception of ast.parse other than SyntaxError is caught
\* by _run_single_test and reported as "error")
execute_unit_test(outcome) ==
    CASE outcome = "ok" -> "passed"
      [] outcome = "SyntaxError" -> "failed"
      [] OTHER -> "error"

\* the 'error' entry of the map _execute_unit_test returns: the parser's text
\* after a SyntaxError, no entry otherwise
ParserErrorText == "Syntax error: invalid syntax"

unit_test_error(outcome) == IF outcome = "SyntaxError" THEN ParserErrorText ELSE Absent

\* the detail record: _run_single_test copies 'status' and
\* result.get('message', '') from the unit test's map and no 'error' entry; a
\* detail has an 'error' entry only when the except branch built it
SingleTestDetail(test_case, status) ==
    [test_id |-> test_case.id,
     status |-> status,
     message |-> CASE status = "passed" -> "Code compiles successfully"
                   [] status = "failed" -> ""
                   [] OTHER -> Absent,
     error |-> IF status = "error" THEN "exception text" ELSE Absent]

run_single_test(test_case, outcome) ==
    IF test_case.test_type = "unit"
    THEN SingleTestDetail(test_case, execute_unit_test(outcome))
    ELSE [SingleTestDetail(test_case, "passed") EXCEPT !.message = "Test executed"]

\* _identify_issues_from_tests: the description of the issue built for a
\* failed detail, test_detail.get('error', 'Unknown error') after the prefix
issue_description(test_detail) ==
    <<"Test failed: ",
      IF test_detail.error = Absent THEN "Unknown error" ELSE test_detail.error>>

\* the issues it returns for the details from the k-th on: description and
\* the fixed fields (confidence in tenths)
RECURSIVE IdentifiedIssues(_, _)
IdentifiedIssues(test_details, k) ==
    IF k > Len(test_details) THEN <<>>
    ELSE IF test_details[k].status = "failed"
         THEN <<[description |-> issue_description(test_details[k]), issue_type |-> "logic",
                 severity |-> "high", confidence |-> 7, line_number |-> 0]>>
              \o IdentifiedIssues(test_details, k + 1)
         ELSE IdentifiedIssues(test_details, k + 1)

\* the loop of run_tests from case k on, with the counters so far
RECURSIVE RunLoop(_, _, _, _, _, _, _)
RunLoop(test_cases, outcome, k, passed_tests, failed_tests, error_tests, test_details) ==
    IF k > Len(test_cases)
    THEN [total_tests |-> Len(test_cases), passed_tests |-> passed_tests,
          failed_tests |-> failed_tests, error_tests |-> error_tests,
          test_details |-> test_details]
    ELSE LET result == run_single_test(test_cases[k], outcome)
         IN  RunLoop(test_cases, outcome, k + 1,
                     IF result.status = "passed" THEN passed_tests + 1 ELSE passed_tests,
                     IF result.status = "failed" THEN failed_tests + 1 ELSE failed_tests,
                     IF result.status \notin {"passed", "failed"}
                        THEN error_tests + 1 ELSE error_tests,
                     Append(test_details, result))

run_test_cases_uncounted(test_cases, outcome) ==
    [RunLoop(test_cases, outcome, 1, 0, 0, 0, <<>>) EXCEPT !.error_tests = 0]

\* TestRunner.run_tests(test_cases, code)
run_test_cases(test_cases, outcome) == RunLoop(test_cases, outcome, 1, 0, 0, 0, <<>>)

NoTestResults ==
    [total_tests |-> 0, passed_tests |-> 0, failed_tests |-> 0, error_tests |-> 0,
     test_details |-> <<>>]

\* the texts handed to the generator: f functions and c classes at module
\* level, the functions first or the classes first, and two texts that
\* ast.parse rejects
FunctionCounts == {0, 1, max_test_cases - 1, max_test_cases, max_test_cases + 1, MaxFunctions}

Decls(f, c, functions_first) ==
    [k \in 1..(f + c) |->
        IF functions_first
        THEN (IF k <= f THEN "function" ELSE "class")
        ELSE (IF k <= c THEN "class" ELSE "function")]

Sources ==
    {MkSource("ok", Decls(f, c, ff)) : f \in FunctionCounts, c \in 0..MaxClasses, ff \in BOOLEAN}
    \cup {MkSource("SyntaxError", <<>>), MkSource("RecursionError", <<>>)}

\* the test cases handed to the runner by a caller
GivenCases == {TestCase(TestId("given", n, 0), t) : n \in 1..2, t \in TestType}

\* tests: the text and the case list under test, the generator's counter,
\* and what the latest generate_tests and run_tests calls returned
NoTests ==
    [source |-> MkSource("ok", <<>>), given |-> <<>>, test_counter |-> 0,
     generations |-> 0, counter_before |-> 0, generated |-> <<>>,
     ran |-> FALSE, ran_on |-> <<>>, results |-> NoTestResults]

\* ------------------------------------------------------------ MemoryManager
\* Abstractions.  The langchain memories are what the manager reads of them:
\* conversation memory is the number of chat messages, knowledge-graph memory
\* the number of turns saved into it, summary memory the kind of text in its
\* buffer.  A long-term list is kept as runs: a run stands for `count`
\* consecutive MemoryEntry records with the same importance (in tenths) and
\* access_count.  Success rates are exact, in units of 1/RateScale.
MemoryTypes == {"conversation", "analysis", "repair"}

max_long_term_entries == 100
max_conversation_messages == 1000
kept_conversation_messages == 500

RECURSIVE Pow10(_)
Pow10(n) == IF n = 0 THEN 1 ELSE 10 * Pow10(n - 1)

RateScale == 2 * Pow10(MaxMemoryOps)
seed_rate == RateScale \div 2
NoRate == -1

\* strategy = repair_result.get('strategy', 'unknown')
RepairStrategyKeys == {"static_only", "hybrid", "unknown"}
IssueIds == {"issue_1", "issue_2"}
AnalysedFiles == {"a.py", "b.py"}
ClearScopes == {"all", "conversation", "project", "long_term", "knowledge"}

Run(importance, access_count, count) ==
    [importance |-> importance, access_count |-> access_count, count |-> count]

Key(run) == <<run.importance, run.access_count>>

\* (importance, access_count) tuples as Python compares them
KeyGreater(a, b) == a[1] > b[1] \/ (a[1] = b[1] /\ a[2] > b[2])

RECURSIVE Total(_)
Total(runs) == IF runs = <<>> THEN 0 ELSE Head(runs).count + Total(Tail(runs))

\* position of run i after entries.sort(key=..., reverse=True): the sort is
\* stable, entries with equal keys keep their order
SortRank(runs, i) ==
    Cardinality({j \in DOMAIN runs : KeyGreater(Key(runs[j]), Key(runs[i]))})
    + Cardinality({j \in 1..i : Key(runs[j]) = Key(runs[i])})

SortRuns(runs) ==
    [p \in DOMAIN runs |-> runs[CHOOSE i \in DOMAIN runs : SortRank(runs, i) = p]]

\* adjacent runs with one key are one run
RECURSIVE MergeRuns(_)
MergeRuns(runs) ==
    IF Len(runs) < 2 THEN runs
    ELSE IF Key(runs[1]) = Key(runs[2])
    THEN MergeRuns(<<[runs[1] EXCEPT !.count = @ + runs[2].count]>> \o SubSeq(runs, 3, Len(runs)))
    ELSE <<runs[1]>> \o MergeRuns(Tail(runs))

\* entries[:n]
RECURSIVE TakeEntries(_, _)
TakeEntries(runs, n) ==
    IF runs = <<>> \/ n <= 0 THEN <<>>
    ELSE IF Head(runs).count <= n
    THEN <<Head(runs)>> \o TakeEntries(Tail(runs), n - Head(runs).count)
    ELSE <<[Head(runs) EXCEPT !.count = n]>>

\* the keys of entries[n:]
RECURSIVE DroppedKeys(_, _)
DroppedKeys(runs, n) ==
    IF runs = <<>> THEN {}
    ELSE IF Head(runs).count <= n THEN DroppedKeys(Tail(runs), n - Head(runs).count)
    ELSE {Key(runs[i]) : i \in DOMAIN runs}

KeepAll(sorted) == sorted

\* one list of _cleanup_low_importance_memory once sorted: cut at 100
KeepTop(sorted) == TakeEntries(sorted, max_long_term_entries)

\* _cleanup_low_importance_memory
cleanup_low_importance_memory(long_term_memory) ==
    [t \in MemoryTypes |-> KeepTop(MergeRuns(SortRuns(long_term_memory[t])))]

\* the keys _cleanup_low_importance_memory cuts off, per type
CleanupDrops(long_term_memory) ==
    [t \in MemoryTypes |->
        DroppedKeys(MergeRuns(SortRuns(long_term_memory[t])), max_long_term_entries)]

\* _add_to_long_term_memory before the cleanup: the entry appended
AppendEntry(long_term_memory, type, importance) ==
    [long_term_memory EXCEPT ![type] = Append(@, Run(importance, 0, 1))]

\* _calculate_importance, for a turn naming kw of the eight keywords
calculate_importance(kw, long_turn) ==
    Min(10, 5 + kw + (IF long_turn THEN 1 ELSE 0))

moving_average_replace(current_rate, success) == IF success THEN RateScale ELSE 0

\* new_rate = current_rate * 0.9 + (1.0 if success else 0.0) * 0.1
moving_average(current_rate, success) ==
    (9 * current_rate + (IF success THEN RateScale ELSE 0)) \div 10

NewProjectMemory ==
    [file_analyses |-> [f \in AnalysedFiles |-> 0],
     issue_patterns |-> 0,
     repair_history |-> {},
     success_rates |-> [st \in RepairStrategyKeys |-> NoRate]]

NoMemoryCall ==
    [n |-> 0, op |-> "none", raised |-> FALSE, scope |-> "none", strategy |-> "none",
     success |-> FALSE]

NewMemory ==
    [messages |-> 0, summary |-> "empty", kg |-> 0,
     project_memory |-> NewProjectMemory,
     long_term_memory |-> [t \in MemoryTypes |-> <<>>],
     last |-> NoMemoryCall]

NoMemLog == [inserted |-> [t \in MemoryTypes |-> 0], dropped |-> [t \in MemoryTypes |-> {}]]

\* mem_log once long_term_memory (an entry of `type` appended, or none for
\* type "none") goes through the cleanup
LoggedCleanup(log, long_term_memory, type) ==
    [inserted |-> [t \in MemoryTypes |-> IF t = type THEN log.inserted[t] + 1
                                         ELSE log.inserted[t]],
     dropped |-> [t \in MemoryTypes |-> log.dropped[t] \cup CleanupDrops(long_term_memory)[t]]]

\* A manager that has been running: every long-term list filled to the cap,
\* the transcript past its cap.
FullLongTerm ==
    [t \in MemoryTypes |->
        CASE t = "conversation" -> <<Run(7, 0, 60), Run(5, 0, max_long_term_entries - 60)>>
          [] t = "analysis" -> <<Run(8, 0, max_long_term_entries)>>
          [] t = "repair" -> <<Run(9, 0, max_long_term_entries - 1), Run(5, 0, 1)>>]

UsedMemories ==
    {[NewMemory EXCEPT !.messages = u[1], !.kg = u[2], !.long_term_memory = lt] :
        u \in {<<0, 0>>, <<max_conversation_messages, 1>>},
        lt \in {NewMemory.long_term_memory, FullLongTerm}}

UsedMemLog(m) ==
    [NoMemLog EXCEPT !.inserted = [t \in MemoryTypes |-> Total(m.long_term_memory[t])]]

\* ------------------------------------------------------------ ConfigManager
\* An AgentConfig: the fields __post_init__ reads and the ones the CLI sets;
\* repair_confidence_threshold in tenths, working_directory "cwd" for
\* os.getcwd().  The other fields are plain values that no operation here
\* changes.
MkConfig(name, log_level, timeout, threshold, working_directory, enable_auto_repair) ==
    [name |-> name, log_level |-> log_level, timeout |-> timeout,
     repair_confidence_threshold |-> threshold, working_directory |-> working_directory,
     enable_auto_repair |-> enable_auto_repair]

valid_levels == {"DEBUG", "INFO", "WARNING", "ERROR", "CRITICAL"}

default_timeout == 300
default_threshold == 7

\* AgentConfig.__post_init__
post_init(c) ==
    [c EXCEPT !.working_directory = IF @ = "" THEN "cwd" ELSE @,
              !.log_level = IF @ \notin valid_levels THEN "INFO" ELSE @,
              !.timeout = IF @ <= 0 THEN default_timeout ELSE @,
              !.repair_confidence_threshold = IF @ < 0 \/ @ > 10 THEN default_threshold ELSE @]

\* AgentConfig(name="DebugAgent", version="1.0.0", enabled=True, log_level="INFO")
DefaultConfig ==
    post_init(MkConfig("DebugAgent", "INFO", default_timeout, default_threshold, "cwd", FALSE))

\* config.json: absent, not JSON, or a JSON object.  json.dump writes
\* config.__dict__ key by key and json.load reads the same strings, numbers
\* and booleans back, so a JSON object is kept as the map of its members.
NoFile == [state |-> "absent", data |-> DefaultConfig]
CorruptFile == [state |-> "corrupt", data |-> DefaultConfig]
JsonFile(data) == [state |-> "json", data |-> data]

\* json.dump(config.__dict__, f)
DumpConfig(config) == JsonFile(config)

\* AgentConfig(**config_data), on the members read from the file
ParseConfig(file) == post_init(file.data)

NoConfigCall == [n |-> 0, op |-> "none", returned |-> DefaultConfig]

\* trip: where the manager stands in a save_config / cache cleared /
\* load_config sequence, and the fields of the instance handed to save_config
NoTrip == [stage |-> "none", saved |-> DefaultConfig]

\* ConfigManager.load_config on (cache, file): the instance returned, which is
\* also the cache afterwards
load_config(cached, cache, file) ==
    IF cached THEN cache
    ELSE IF file.state = "json" THEN ParseConfig(file)
    ELSE DefaultConfig

\* setattr(config, key, value) for a key the instance has; other keys are skipped
ApplyUpdate(config, key, value) ==
    CASE key = "repair_confidence_threshold" -> [config EXCEPT !.repair_confidence_threshold = value]
      [] key = "timeout" -> [config EXCEPT !.timeout = value]
      [] key = "log_level" -> [config EXCEPT !.log_level = value]
      [] key = "enable_auto_repair" -> [config EXCEPT !.enable_auto_repair = value]
      [] OTHER -> config

\* instances a caller constructs: AgentConfig(...) runs __post_init__
ConstructedConfigs ==
    {post_init(MkConfig(n, l, t, th, wd, FALSE)) :
        n \in {"DebugAgent", "Custom"}, l \in {"DEBUG", "TRACE"}, t \in {60, 0},
        th \in {5, 15}, wd \in {"", "/work"}}

\* update maps of one key: the CLI's --confidence X and --enable-repair, and
\* keys a caller of update_config passes
Updates ==
    {[key |-> "repair_confidence_threshold", value |-> th] : th \in {-1, 0, 5, 10, 15}}
    \cup {[key |-> "enable_auto_repair", value |-> TRUE]}
    \cup {[key |-> "timeout", value |-> t] : t \in {0, 60}}
    \cup {[key |-> "log_level", value |-> l] : l \in {"DEBUG", "TRACE"}}
    \cup {[key |-> "no_such_field", value |-> 1]}

\* config.json as the user may have left it before the process starts
FilesAtStart ==
    {NoFile, CorruptFile, JsonFile(DefaultConfig),
     JsonFile(MkConfig("Custom", "DEBUG", 60, 5, "/work", TRUE)),
     JsonFile(MkConfig("Custom", "TRACE", 0, 15, "", FALSE))}

\* config_manager = ConfigManager(); default_config = config_manager.load_config()
ConfigManagerAtStart(file) ==
    [cached |-> TRUE, cache |-> load_config(FALSE, DefaultConfig, file), file |-> file,
     last |-> NoConfigCall, trip |-> NoTrip]

NewConfigManager == ConfigManagerAtStart(NoFile)

\* --------------------------------------------------------------- the state
VARIABLES
    calls,          \* public calls made so far
    coordinator,    \* CoordinatorAgent: execution_history, metrics.issues_found
    static_agent,   \* its StaticAnalysisAgent
    repair_agent,   \* its TestDrivenRepairAgent
    engines,        \* last_decision_factors of two DecisionEngine instances
                    \* (engines[1] is the coordinator's)
    ret,            \* the latest call: its arguments and what it returned
    last_repair,    \* the locals of the latest TestDrivenRepairAgent run
    pending,        \* the arguments of a repair call about to be made
    strat_out,      \* the latest direct call of a repair strategy
    probe,          \* the AnalysisContext under test
    dec_log,        \* every (context, strategy, factors) the engines produced
    tests,          \* a TestGenerator and a TestRunner called directly
    memory,         \* a MemoryManager: its five memory layers and its latest call
    mem_log,        \* per long-term type: entries inserted and keys dropped since the last clear
    config_manager, \* the global ConfigManager: its cache, config.json, its latest call
    cli,            \* one command-line invocation of analyze or scan
    intelligent     \* an IntelligentCoordinator: history, metrics, project memory, latest call

vars == <<calls, coordinator, static_agent, repair_agent, engines, ret, last_repair,
          pending, strat_out, probe, dec_log, tests,
          memory,
          mem_log,
          config_manager,
          cli,
          intelligent>>

\* ------------------------------------------------------- the command line
\* cli.py: the analyze and scan commands.  --strategy is one of click's four
\* choices, mapped to a Strategy member by strategy_map.
StrategyChoices == {"static", "test-driven", "hybrid", "auto"}

strategy_map(choice) ==
    CASE choice = "static" -> "static_only"
      [] choice = "test-driven" -> "test_driven_only"
      [] choice = "hybrid" -> "hybrid"
      [] choice = "auto" -> "auto"

\* --output: not given, a path open(output, 'w') opens, or one it cannot open
OutputArgs == {"none", "writable", "unwritable"}

\* The issue lists of a static-analysis map hold SecurityIssue, QualityIssue
\* and PerformanceIssue instances, which json.dump has no encoding for; the
\* repair report, the coordination info and an error map hold only
\* dictionaries, lists, strings, numbers and booleans.
HoldsIssueObjects(static_result) == AllIssues(static_result) # <<>>

JsonSerializable(result) ==
    result.kind = "report" =>
        /\ ~HoldsIssueObjects(result.static_initial)
        /\ ~HoldsIssueObjects(result.static_final)

\* `if output:` with open(output, 'w') and json.dump(result, f).  json.dump
\* writes chunk by chunk, so a TypeError leaves the text up to the first
\* issue object in the file.
WriteOutput(output, result) ==
    CASE output = "none" -> [raised |-> FALSE, out_file |-> "absent", written |-> NoneMap]
      [] output = "unwritable" -> [raised |-> TRUE, out_file |-> "absent", written |-> NoneMap]
      [] output = "writable" /\ JsonSerializable(result) ->
            [raised |-> FALSE, out_file |-> "complete", written |-> result]
      [] OTHER -> [raised |-> TRUE, out_file |-> "partial", written |-> NoneMap]

\* One invocation: the arguments, and once the command has run whether the
\* coordinator returned a result map, the exit status and the output file.
MkInvocation(command, code, readable, file_path, choice, output, verbose) ==
    [command |-> command, code |-> code, readable |-> readable, file_path |-> file_path,
     strategy |-> choice, output |-> output, verbose |-> verbose,
     stage |-> "start", returned |-> FALSE, result |-> NoneMap, displayed |-> "none",
     exit_status |-> 0, out_file |-> "absent", written |-> NoneMap]

NoInvocation ==
    [MkInvocation("none", EmptyCode, TRUE, NoPath, "auto", "none", FALSE) EXCEPT !.stage = "idle"]

\* analyze CODE [--file F]: any code string; scan FILE_PATH: a path that
\* exists, read as text (a directory or an undecodable file cannot be)
Invocations ==
    {MkInvocation("analyze", code, TRUE, fp, choice, output, verbose) :
        code \in Codes, fp \in FilePaths, choice \in StrategyChoices,
        output \in OutputArgs, verbose \in BOOLEAN}
    \cup {MkInvocation("scan", code, TRUE, fp, choice, output, verbose) :
        code \in Codes, fp \in FilePaths \ {NoPath}, choice \in StrategyChoices,
        output \in OutputArgs, verbose \in BOOLEAN}
    \cup {MkInvocation("scan", EmptyCode, FALSE, fp, choice, output, verbose) :
        fp \in FilePaths \ {NoPath}, choice \in StrategyChoices,
        output \in OutputArgs, verbose \in BOOLEAN}

\* the command after coordinator.analyze_and_repair: the result is displayed
\* and, with --output, written; any exception ends in sys.exit(1)
Exited(invocation, raised, result, w) ==
    [invocation EXCEPT
        !.stage = "exited",
        !.returned = ~raised,
        !.result = IF raised THEN NoneMap ELSE result,
        !.displayed = IF raised THEN "none"
                      ELSE IF invocation.verbose THEN "detailed" ELSE "summary",
        !.exit_status = IF raised \/ w.raised THEN 1 ELSE 0,
        !.out_file = IF raised THEN "absent" ELSE w.out_file,
        !.written = IF raised THEN NoneMap ELSE w.written]

NewAgent == [execution_history |-> <<>>, issues_found |-> 0]

\* ------------------------------------------------ the intelligent coordinator
\* intelligent_coordinator.py.  The master agent is a language model behind
\* LangChain: its run either returns a text or raises.
AgentOutcomes == {"text_1", "text_2", "raises"}

IntelligentPaths == AnalysedFiles \cup {None}

IntelligentCodes == {EmptyCode, FunctionCode} \cup {c \in OneLineCodes : c.lines = <<"pwd">>}

\* _execute_intelligent_agent and _parse_intelligent_result
execute_intelligent_agent(outcome) ==
    IF outcome = "raises"
    THEN [raised |-> TRUE, result |-> NoneMap, error |-> "Exception"]
    ELSE [raised |-> FALSE, error |-> None,
          result |-> [kind |-> "report", strategy |-> "intelligent_agent",
                      agent_result |-> outcome, total_issues |-> 0, overall_success |-> TRUE]]

\* _execute_strategy_based: the three methods it names for STATIC_ONLY,
\* TEST_DRIVEN_ONLY and HYBRID are defined nowhere in the class, so the
\* attribute lookup raises AttributeError
execute_strategy_based(strategy_arg, outcome) ==
    IF strategy_arg \in {"static_only", "test_driven_only", "hybrid"}
    THEN [raised |-> TRUE, result |-> NoneMap, error |-> "AttributeError"]
    ELSE execute_intelligent_agent(outcome)

\* _update_project_memory(file_path, result)
update_project_memory(file_analyses, file_path, result) ==
    IF file_path = None THEN file_analyses
    ELSE [file_analyses EXCEPT ![file_path] =
            [last_analysis |-> result, analysis_count |-> @.analysis_count + 1]]

NoFileAnalyses == [f \in AnalysedFiles |-> [last_analysis |-> NoneMap, analysis_count |-> 0]]

NoIntelligentCall ==
    [n |-> 0, raised |-> FALSE, code |-> EmptyCode, file_path |-> None, strategy |-> None,
     result |-> NoneMap]

NewIntelligent ==
    [agent |-> NewAgent, file_analyses |-> NoFileAnalyses, start_time |-> None,
     made |-> [f \in AnalysedFiles |-> 0], last |-> NoIntelligentCall]

\* intelligent_analyze_and_repair once the try block has ended with run: the
\* success path updates the project memory and records the result, the
\* handler records the error map, and end_execution resets start_time
IntelligentReturn(ic, code, file_path, strategy_arg, run) ==
    [agent |-> IF run.raised
               THEN record_execution(ic.agent, "intelligent_coordination", FALSE, FALSE, 0)
               ELSE record_execution(ic.agent, "intelligent_coordination",
                                     run.result.overall_success, TRUE, run.result.total_issues),
     file_analyses |-> IF run.raised THEN ic.file_analyses
                       ELSE update_project_memory(ic.file_analyses, file_path, run.result),
     start_time |-> None,
     made |-> IF file_path = None THEN ic.made
              ELSE [ic.made EXCEPT ![file_path] = @ + 1],
     last |-> [n |-> ic.last.n + 1, raised |-> FALSE, code |-> code, file_path |-> file_path,
               strategy |-> strategy_arg,
               result |-> IF run.raised THEN ErrorMap("IntelligentCoordinator", run.error)
                          ELSE run.result]]

\* a strategy argument that is neither a Strategy member nor falsy:
\* `strategy.value` raises in the try block and again in the handler, so the
\* AttributeError leaves the method; the finally clause still runs
IntelligentEscape(ic, code, file_path, strategy_arg) ==
    [ic EXCEPT !.start_time = None,
               !.made = IF file_path = None THEN @ ELSE [@ EXCEPT ![file_path] = @ + 1],
               !.last = [n |-> ic.last.n + 1, raised |-> TRUE, code |-> code,
                         file_path |-> file_path, strategy |-> strategy_arg,
                         result |-> NoneMap]]

intelligent_analyze_and_repair(ic, code, file_path, strategy_arg, outcome) ==
    IF strategy_arg = "nonempty_dict"
    THEN IntelligentEscape(ic, code, file_path, strategy_arg)
    ELSE IntelligentReturn(ic, code, file_path, strategy_arg,
                           IF strategy_arg = "auto" THEN execute_intelligent_agent(outcome)
                           ELSE execute_strategy_based(strategy_arg, outcome))


NoCall ==
    [call |-> "none", raised |-> FALSE, code |-> EmptyCode, strategy |-> None,
     result |-> NoneMap, strategy_used |-> "unknown", repair_ran |-> FALSE]

NoPending == [active |-> FALSE, code |-> EmptyCode, issues |-> NoIssues]

NoStrategyCall ==
    [called |-> FALSE, name |-> "logic", code |-> EmptyCode,
     issue |-> MkIssue("logic", 0, "high", 7, Absent, Absent, Absent, Absent, Absent),
     out |-> RepairMiss(EmptyCode, "logic_manual", 1)]

InitAgents ==
    /\ calls = 0
    /\ coordinator = NewAgent
    /\ static_agent = NewAgent
    /\ repair_agent = NewAgent
    /\ engines = [e \in 1..2 |-> NoFactors]
    /\ ret = NoCall
    /\ last_repair = NoLocals(EmptyCode)
    /\ strat_out = NoStrategyCall
    /\ dec_log = {}

Init ==
    /\ InitAgents
    /\ pending = NoPending
    /\ probe = EarlierContext
    /\ tests = NoTests
    /\ memory = NewMemory
    /\ mem_log = NoMemLog
    /\ config_manager = NewConfigManager
    /\ cli = NoInvocation
    /\ intelligent = NewIntelligent

\* ------------------------------------------------------------- the actions
\* StaticAnalysisAgent.analyze(code, context)
StaticAnalyze(code) ==
    /\ calls < MaxCalls
    /\ calls' = calls + 1
    /\ static_agent' = StaticAgentAfter(static_agent, code)
    /\ ret' = [NoCall EXCEPT !.call = "StaticAnalysisAgent.analyze", !.code = code,
                             !.result = StaticResult(code)]
    /\ UNCHANGED <<coordinator, repair_agent, engines, last_repair, pending, strat_out,
                   probe, dec_log, tests, memory, mem_log, config_manager, cli,
                   intelligent>>

\* TestDrivenRepairAgent.analyze(target, context): analyze_and_repair(code, None, context)
RepairAnalyze(code) ==
    /\ calls < MaxCalls
    /\ calls' = calls + 1
    /\ \E run \in {TDRRun(repair_agent, code, NoIssues)} :
           /\ repair_agent' = run.agent
           /\ last_repair' = run.locals
           /\ ret' = [NoCall EXCEPT !.call = "TestDrivenRepairAgent.analyze", !.code = code,
                                    !.result = run.result, !.repair_ran = TRUE]
    /\ UNCHANGED <<coordinator, static_agent, engines, pending, strat_out, probe, dec_log, tests, memory,
                   mem_log, config_manager, cli, intelligent>>

\* CoordinatorAgent.analyze_and_repair(code, file_path, strategy)
Coordinate(call, code, file_path, strategy_arg) ==
    \E run \in {CoordRun(coordinator, static_agent, repair_agent, engines[1],
                          code, file_path, strategy_arg)} :
        /\ coordinator' = run.coordinator
        /\ static_agent' = run.static_agent
        /\ repair_agent' = run.repair_agent
        /\ engines' = [engines EXCEPT ![1] = run.engine]
        /\ last_repair' = IF run.repair_ran THEN run.locals ELSE last_repair
        /\ ret' = [call |-> call, raised |-> run.raised, code |-> code,
                   strategy |-> strategy_arg, result |-> run.result,
                   strategy_used |-> run.strategy_used, repair_ran |-> run.repair_ran]

CoordAnalyzeAndRepair(code, file_path, strategy_arg) ==
    /\ calls < MaxCalls
    /\ calls' = calls + 1
    /\ Coordinate("CoordinatorAgent.analyze_and_repair", code, file_path, strategy_arg)
    /\ UNCHANGED <<pending, strat_out, probe, dec_log, tests, memory, mem_log, config_manager, cli,
                   intelligent>>

\* CoordinatorAgent.analyze(target, context): analyze_and_repair(code, None,
\* context), the context map in the strategy position
CoordAnalyze(code, context) ==
    /\ calls < MaxCalls
    /\ calls' = calls + 1
    /\ Coordinate("CoordinatorAgent.analyze", code, NoPath, context)
    /\ UNCHANGED <<pending, strat_out, probe, dec_log, tests, memory, mem_log, config_manager, cli,
                   intelligent>>

Next ==
    \/ \E code \in Codes : StaticAnalyze(code)
    \/ \E code \in Codes : RepairAnalyze(code)
    \/ \E code \in Codes, fp \in FilePaths, s \in StrategyArgs :
            /\ (fp # NoPath => s = "auto")
            /\ CoordAnalyzeAndRepair(code, fp, s)
    \/ \E code \in Codes, context \in {None, "empty_dict", "nonempty_dict"} :
            CoordAnalyze(code, context)

Spec == Init /\ [][Next]_vars

\* ----------------------------------------------- the repair agent on its own
\* A TestDrivenRepairAgent about to be called with a code and an issues
\* argument; the strategies of its table are also called directly.
InitRepair ==
    /\ InitAgents
    /\ pending \in {[active |-> TRUE, code |-> c, issues |-> i] : c \in Codes, i \in IssueArgs}
    /\ probe = EarlierContext
    /\ tests = NoTests
    /\ memory = NewMemory
    /\ mem_log = NoMemLog
    /\ config_manager = NewConfigManager
    /\ cli = NoInvocation
    /\ intelligent = NewIntelligent

\* TestDrivenRepairAgent.analyze_and_repair(code, issues, context)
RepairCall ==
    /\ pending.active
    /\ \E run \in {TDRRun(repair_agent, pending.code, pending.issues)} :
           /\ repair_agent' = run.agent
           /\ last_repair' = run.locals
           /\ ret' = [NoCall EXCEPT !.call = "TestDrivenRepairAgent.analyze_and_repair",
                                    !.code = pending.code, !.result = run.result,
                                    !.repair_ran = TRUE]
    /\ pending' = [pending EXCEPT !.active = FALSE]
    /\ calls' = calls + 1
    /\ UNCHANGED <<coordinator, static_agent, engines, strat_out, probe, dec_log, tests, memory, mem_log,
                   config_manager, cli, intelligent>>

\* <name>RepairStrategy().repair(code, issue), on the first pending issue
StrategyCall(name) ==
    /\ pending.issues.list # <<>>
    /\ ~strat_out.called
    /\ strat_out' = [called |-> TRUE, name |-> name, code |-> pending.code,
                     issue |-> Head(pending.issues.list),
                     out |-> StrategyRepair(name, pending.code, Head(pending.issues.list))]
    /\ UNCHANGED <<calls, coordinator, static_agent, repair_agent, engines, ret, last_repair,
                   pending, probe, dec_log, tests, memory, mem_log, config_manager, cli,
                   intelligent>>

NextRepair ==
    \/ RepairCall
    \/ \E name \in RepairStrategyNames : StrategyCall(name)

SpecRepair == InitRepair /\ [][NextRepair]_vars

\* ------------------------------------- the static analysis agent on its own
\* A StaticAnalysisAgent analysing one text.
InitStatic ==
    /\ InitAgents
    /\ pending \in {[active |-> TRUE, code |-> c, issues |-> NoIssues] : c \in ScoreCodes}
    /\ probe = EarlierContext
    /\ tests = NoTests
    /\ memory = NewMemory
    /\ mem_log = NoMemLog
    /\ config_manager = NewConfigManager
    /\ cli = NoInvocation
    /\ intelligent = NewIntelligent

NextStatic == pending.active /\ StaticAnalyze(pending.code)

SpecStatic == InitStatic /\ [][NextStatic]_vars

\* --------------------------- the test generator and the test runner on their own
\* One TestGenerator and one TestRunner, a text and a list of test cases.
InitTests ==
    /\ InitAgents
    /\ pending = NoPending
    /\ probe = EarlierContext
    /\ tests \in {[NoTests EXCEPT !.source = s, !.given = g] :
                    s \in Sources, g \in SeqsUpTo(GivenCases, MaxCases)}
    /\ memory = NewMemory
    /\ mem_log = NoMemLog
    /\ config_manager = NewConfigManager
    /\ cli = NoInvocation
    /\ intelligent = NewIntelligent

\* TestGenerator.generate_tests(code)
GenerateTests ==
    /\ tests.generations < MaxGenerations
    /\ \E gen \in {generate_test_cases(tests.source, tests.test_counter)} :
           tests' = [tests EXCEPT !.generations = @ + 1,
                                  !.counter_before = tests.test_counter,
                                  !.generated = gen.test_cases,
                                  !.test_counter = gen.test_counter]
    /\ UNCHANGED <<calls, coordinator, static_agent, repair_agent, engines, ret, last_repair,
                   pending, strat_out, probe, dec_log, memory, mem_log, config_manager,
                   cli, intelligent>>

\* TestRunner.run_tests(test_cases, code)
RunTestsOn(test_cases) ==
    /\ ~tests.ran
    /\ tests' = [tests EXCEPT !.ran = TRUE, !.ran_on = test_cases,
                              !.results = run_test_cases(test_cases, tests.source.outcome)]
    /\ UNCHANGED <<calls, coordinator, static_agent, repair_agent, engines, ret, last_repair,
                   pending, strat_out, probe, dec_log, memory, mem_log, config_manager,
                   cli, intelligent>>

\* the runner on the caller's cases
RunGivenTests == RunTestsOn(tests.given)

\* the runner on the cases the generator returned last
RunGeneratedTests == tests.generations > 0 /\ RunTestsOn(tests.generated)

NextTests == GenerateTests \/ RunGivenTests \/ RunGeneratedTests

SpecTests == InitTests /\ [][NextTests]_vars

\* ---------------------------------------------- the memory manager on its own
InitMemory ==
    /\ InitAgents
    /\ pending = NoPending
    /\ probe = EarlierContext
    /\ tests = NoTests
    /\ memory \in UsedMemories
    /\ mem_log = UsedMemLog(memory)
    /\ config_manager = NewConfigManager
    /\ cli = NoInvocation
    /\ intelligent = NewIntelligent

MemoryCall(op, raised, scope, strategy, success) ==
    [n |-> memory.last.n + 1, op |-> op, raised |-> raised, scope |-> scope,
     strategy |-> strategy, success |-> success]

MemoryFrame ==
    UNCHANGED <<calls, coordinator, static_agent, repair_agent, engines, ret, last_repair,
                pending, strat_out, probe, dec_log, tests, config_manager, cli,
                intelligent>>

\* add_conversation(user_input, assistant_response): the turn is saved to the
\* conversation memory, then the summary and knowledge-graph calls go to the
\* hosted model; when one of them raises nothing else is recorded
AddConversation(kw, long_turn, llm_ok) ==
    /\ memory.last.n < MaxMemoryOps
    /\ IF llm_ok
       THEN \E lt \in {AppendEntry(memory.long_term_memory, "conversation",
                                   calculate_importance(kw, long_turn))} :
               /\ memory' = [memory EXCEPT
                    !.messages = @ + 2,
                    !.kg = @ + 1,
                    !.long_term_memory = cleanup_low_importance_memory(lt),
                    !.last = MemoryCall("add_conversation", FALSE, "none", "none", FALSE)]
               /\ mem_log' = LoggedCleanup(mem_log, lt, "conversation")
       ELSE /\ memory' = [memory EXCEPT
                    !.messages = @ + 2,
                    !.last = MemoryCall("add_conversation", TRUE, "none", "none", FALSE)]
            /\ UNCHANGED mem_log
    /\ MemoryFrame

\* add_analysis_result(file_path, analysis_result), the result listing
\* n_issues issue maps
AddAnalysisResult(file_path, n_issues) ==
    /\ memory.last.n < MaxMemoryOps
    /\ \E lt \in {AppendEntry(memory.long_term_memory, "analysis", 8)} :
           /\ memory' = [memory EXCEPT
                !.project_memory.file_analyses[file_path] = @ + 1,
                !.project_memory.issue_patterns = @ + n_issues,
                !.long_term_memory = cleanup_low_importance_memory(lt),
                !.last = MemoryCall("add_analysis_result", FALSE, "none", "none", FALSE)]
           /\ mem_log' = LoggedCleanup(mem_log, lt, "analysis")
    /\ MemoryFrame

\* add_repair_result(issue_id, repair_result)
AddRepairResult(issue_id, strategy, success) ==
    /\ memory.last.n < MaxMemoryOps
    /\ \E lt \in {AppendEntry(memory.long_term_memory, "repair", IF success THEN 9 ELSE 5)},
          current_rate \in {IF memory.project_memory.success_rates[strategy] = NoRate
                            THEN seed_rate
                            ELSE memory.project_memory.success_rates[strategy]} :
           /\ memory' = [memory EXCEPT
                !.project_memory.repair_history = @ \cup {issue_id},
                !.project_memory.success_rates[strategy] = moving_average(current_rate, success),
                !.long_term_memory = cleanup_low_importance_memory(lt),
                !.last = MemoryCall("add_repair_result", FALSE, "none", strategy, success)]
           /\ mem_log' = LoggedCleanup(mem_log, lt, "repair")
    /\ MemoryFrame

ClearsKnown(memory_type, layer) ==
    memory_type \in {"all", "conversation", "project", "long_term"}

\* if memory_type in ["all", <layer>]
Clears(memory_type, layer) == memory_type \in {"all", layer}

\* clear_memory(memory_type)
ClearMemory(memory_type) ==
    /\ memory.last.n < MaxMemoryOps
    /\ memory' = [memory EXCEPT
            !.messages = IF Clears(memory_type, "conversation") THEN 0 ELSE @,
            !.summary = IF Clears(memory_type, "conversation") THEN "empty" ELSE @,
            !.kg = IF Clears(memory_type, "conversation") THEN 0 ELSE @,
            !.project_memory = IF Clears(memory_type, "project") THEN NewProjectMemory ELSE @,
            !.long_term_memory = IF Clears(memory_type, "long_term")
                                 THEN [t \in MemoryTypes |-> <<>>] ELSE @,
            !.last = MemoryCall("clear_memory", FALSE, memory_type, "none", FALSE)]
    /\ mem_log' = IF Clears(memory_type, "long_term") THEN NoMemLog ELSE mem_log
    /\ MemoryFrame

\* optimize_memory(); long_text: the last ten messages exceed 500 characters
OptimizeMemory(long_text) ==
    /\ memory.last.n < MaxMemoryOps
    /\ \E messages \in {IF memory.messages > max_conversation_messages
                        THEN kept_conversation_messages ELSE memory.messages} :
           memory' = [memory EXCEPT
                !.long_term_memory = cleanup_low_importance_memory(@),
                !.messages = messages,
                !.summary = IF messages = 0 THEN @
                            ELSE IF long_text THEN "recent_truncated" ELSE "recent",
                !.last = MemoryCall("optimize_memory", FALSE, "none", "none", FALSE)]
    /\ mem_log' = LoggedCleanup(mem_log, memory.long_term_memory, "none")
    /\ MemoryFrame

NextMemory ==
    \/ \E kw \in {0, 2, 8}, long_turn \in BOOLEAN, llm_ok \in BOOLEAN :
            AddConversation(kw, long_turn, llm_ok)
    \/ \E file_path \in AnalysedFiles, n_issues \in 0..1 : AddAnalysisResult(file_path, n_issues)
    \/ \E issue_id \in IssueIds, strategy \in RepairStrategyKeys, success \in BOOLEAN :
            AddRepairResult(issue_id, strategy, success)
    \/ \E memory_type \in ClearScopes : ClearMemory(memory_type)
    \/ \E long_text \in BOOLEAN : OptimizeMemory(long_text)

SpecMemory == InitMemory /\ [][NextMemory]_vars

\* ---------------------------------------------- the configuration on its own
InitConfig ==
    /\ InitAgents
    /\ pending = NoPending
    /\ probe = EarlierContext
    /\ tests = NoTests
    /\ memory = NewMemory
    /\ mem_log = NoMemLog
    /\ config_manager \in {ConfigManagerAtStart(file) : file \in FilesAtStart}
    /\ cli = NoInvocation
    /\ intelligent = NewIntelligent

ConfigCall(op, returned) == [n |-> config_manager.last.n + 1, op |-> op, returned |-> returned]

ConfigFrame ==
    UNCHANGED <<calls, coordinator, static_agent, repair_agent, engines, ret, last_repair,
                pending, strat_out, probe, dec_log, tests, memory, mem_log, cli,
                intelligent>>

\* config_manager.load_config() / get_config()
LoadConfig ==
    /\ config_manager.last.n < MaxConfigOps
    /\ \E config \in {load_config(config_manager.cached, config_manager.cache,
                                  config_manager.file)} :
           config_manager' =
               [config_manager EXCEPT
                    !.cached = TRUE, !.cache = config,
                    !.last = ConfigCall("load_config", config),
                    !.trip = IF config_manager.trip.stage = "cleared"
                             THEN [@ EXCEPT !.stage = "loaded"] ELSE NoTrip]
    /\ ConfigFrame

\* config_manager.save_config(config)
SaveConfig(config) ==
    /\ config_manager.last.n < MaxConfigOps
    /\ config_manager' =
           [config_manager EXCEPT
                !.cached = TRUE, !.cache = config, !.file = DumpConfig(config),
                !.last = ConfigCall("save_config", config),
                !.trip = [stage |-> "saved", saved |-> config]]
    /\ ConfigFrame

\* config_manager._config_cache = None
ClearCache ==
    /\ config_manager.last.n < MaxConfigOps
    /\ config_manager.cached
    /\ config_manager' =
           [config_manager EXCEPT
                !.cached = FALSE,
                !.last = ConfigCall("clear_cache", config_manager.last.returned),
                !.trip = IF config_manager.trip.stage = "saved"
                         THEN [@ EXCEPT !.stage = "cleared"] ELSE NoTrip]
    /\ ConfigFrame

\* update_config(updates): load_config, setattr on the instance, save_config
UpdateConfig(update) ==
    /\ config_manager.last.n < MaxConfigOps
    /\ \E config \in {ApplyUpdate(load_config(config_manager.cached, config_manager.cache,
                                              config_manager.file),
                                  update.key, update.value)} :
           config_manager' =
               [config_manager EXCEPT
                    !.cached = TRUE, !.cache = config, !.file = DumpConfig(config),
                    !.last = ConfigCall("update_config", config),
                    !.trip = [stage |-> "saved", saved |-> config]]
    /\ ConfigFrame

\* reset_config(): the cache is dropped, load_config runs, its result is saved
ResetConfig ==
    /\ config_manager.last.n < MaxConfigOps
    /\ \E config \in {load_config(FALSE, config_manager.cache, config_manager.file)} :
           config_manager' =
               [config_manager EXCEPT
                    !.cached = TRUE, !.cache = config, !.file = DumpConfig(config),
                    !.last = ConfigCall("reset_config", config),
                    !.trip = NoTrip]
    /\ ConfigFrame

NextConfig ==
    \/ LoadConfig
    \/ \E config \in ConstructedConfigs : SaveConfig(config)
    \/ ClearCache
    \/ \E update \in Updates : UpdateConfig(update)
    \/ ResetConfig

SpecConfig == InitConfig /\ [][NextConfig]_vars

\* ------------------------------------------------- the command line on its own
\* One analyze or scan invocation on a fresh CoordinatorAgent.
InitCli ==
    /\ InitAgents
    /\ pending = NoPending
    /\ probe = EarlierContext
    /\ tests = NoTests
    /\ memory = NewMemory
    /\ mem_log = NoMemLog
    /\ config_manager = NewConfigManager
    /\ cli \in Invocations
    /\ intelligent = NewIntelligent

CliFrame ==
    UNCHANGED <<calls, pending, strat_out, probe, dec_log, tests, memory, mem_log,
                config_manager, intelligent>>

\* the body of either command from `coordinator = CoordinatorAgent(config)` on
CliRun(call, code) ==
    /\ Coordinate(call, code, cli.file_path, strategy_map(cli.strategy))
    /\ cli' = Exited(cli, ret'.raised, ret'.result, WriteOutput(cli.output, ret'.result))
    /\ CliFrame

\* analyze CODE
Analyze ==
    /\ cli.stage = "start"
    /\ cli.command = "analyze"
    /\ CliRun("cli.analyze", cli.code)

\* scan FILE_PATH, the file read as text
Scan ==
    /\ cli.stage = "start"
    /\ cli.command = "scan"
    /\ cli.readable
    /\ CliRun("cli.scan", cli.code)

\* scan FILE_PATH, open or read raising: the coordinator is never built
ScanUnreadable ==
    /\ cli.stage = "start"
    /\ cli.command = "scan"
    /\ ~cli.readable
    /\ cli' = Exited(cli, TRUE, NoneMap, WriteOutput("none", NoneMap))
    /\ CliFrame
    /\ UNCHANGED <<coordinator, static_agent, repair_agent, engines, ret, last_repair, intelligent>>

NextCli ==
    \/ Analyze
    \/ Scan
    \/ ScanUnreadable

SpecCli == InitCli /\ [][NextCli]_vars

\* ---------------------------------------- the intelligent coordinator on its own
InitIntelligent ==
    /\ InitAgents
    /\ pending = NoPending
    /\ probe = EarlierContext
    /\ tests = NoTests
    /\ memory = NewMemory
    /\ mem_log = NoMemLog
    /\ config_manager = NewConfigManager
    /\ cli = NoInvocation
    /\ intelligent = NewIntelligent

\* IntelligentCoordinator.intelligent_analyze_and_repair(code, file_path, strategy)
IntelligentAnalyzeAndRepair(code, file_path, strategy_arg, outcome) ==
    /\ intelligent.last.n < MaxIntelligentCalls
    /\ intelligent' = intelligent_analyze_and_repair(intelligent, code, file_path,
                                                     strategy_arg, outcome)
    /\ UNCHANGED <<calls, coordinator, static_agent, repair_agent, engines, ret, last_repair,
                   pending, strat_out, probe, dec_log, tests, memory, mem_log,
                   config_manager, cli>>

NextIntelligent ==
    \E code \in IntelligentCodes, file_path \in IntelligentPaths,
       strategy_arg \in StrategyArgs, outcome \in AgentOutcomes :
        IntelligentAnalyzeAndRepair(code, file_path, strategy_arg, outcome)

SpecIntelligent == InitIntelligent /\ [][NextIntelligent]_vars

\* -------------------------------------------- the decision engine on its own
\* Two DecisionEngine instances deciding, in any order and any number of
\* times, on the context under test and on an earlier context.
InitDecision ==
    /\ InitAgents
    /\ pending = NoPending
    /\ probe \in DecisionContexts
    /\ tests = NoTests
    /\ memory = NewMemory
    /\ mem_log = NoMemLog
    /\ config_manager = NewConfigManager
    /\ cli = NoInvocation
    /\ intelligent = NewIntelligent

\* engine e: make_strategy_decision(context)
Decide(e, context) ==
    \E decision \in {make_strategy_decision(engines[e], context)} :
        /\ engines' = [engines EXCEPT ![e] = decision.last_decision_factors]
        /\ dec_log' = dec_log \cup {[engine |-> e, context |-> context,
                                     strategy |-> decision.strategy,
                                     factors |-> decision.last_decision_factors]}
        /\ UNCHANGED <<calls, coordinator, static_agent, repair_agent, ret, last_repair,
                       pending, strat_out, probe, tests, memory, mem_log, config_manager,
                       cli, intelligent>>

NextDecision ==
    \E e \in 1..2, context \in {probe, EarlierContext} : Decide(e, context)

SpecDecision == InitDecision /\ [][NextDecision]_vars

\* ---------------------------------------------------------------- properties
Returned == ret.call # "none" /\ ~ret.raised

HybridReport ==
    /\ Returned
    /\ ret.call \in {"CoordinatorAgent.analyze_and_repair", "CoordinatorAgent.analyze"}
    /\ ret.strategy_used = "hybrid"
    /\ ret.result.kind = "report"

StaticOnlyReport ==
    /\ Returned
    /\ ret.call \in {"CoordinatorAgent.analyze_and_repair", "CoordinatorAgent.analyze"}
    /\ ret.strategy_used = "static_only"
    /\ ret.result.kind = "report"

\* C1: no public entry point of an agent raises to its caller: every call
\* returns a map, and a call whose body failed returns the handle_error map
\* with success = false.
C1_NoExceptionEscapes ==
    ret.call # "none" =>
        /\ ~ret.raised
        /\ ret.result.kind \in {"report", "error"}
        /\ (ret.result.kind = "error" => ret.result.success = FALSE)

\* C2: TestDrivenRepairAgent.analyze_and_repair, on any code and any issues
\* argument whose repair strategies do not raise, returns the report map and
\* not an error map.
C2_ReportReturned ==
    (/\ ret.call = "TestDrivenRepairAgent.analyze_and_repair"
     /\ ~last_repair.strategy_raised)
        => ret.result.kind = "report"

\* C3: in the hybrid workflow, when static analysis found an issue and a
\* repair strategy rewrote the code, final_code is the repaired code, differs
\* from the input, and static_analysis_results.final is present.
C3_HybridAdoptsRepair ==
    (/\ HybridReport
     /\ ret.result.total_issues > 0
     /\ ret.repair_ran
     /\ last_repair.repair_results # <<>>
     /\ last_repair.current_code # ret.code)
        => /\ ret.result.final_code = last_repair.current_code
           /\ ret.result.final_code # ret.code
           /\ ret.result.static_final.kind = "report"

\* C4: in the hybrid workflow, on a code for which static analysis reports no
\* security, quality or performance issue, the repair agent is not called,
\* final_code is the input code and static_analysis_results.final is absent.
C4_HybridNoOp ==
    (HybridReport /\ AllIssues(StaticResult(ret.code)) = <<>>)
        => /\ ~ret.repair_ran
           /\ ret.result.repair_results.kind = "none"
           /\ ret.result.final_code = ret.code
           /\ ret.result.static_final.kind = "none"

C4_Witness ==
    /\ HybridReport
    /\ ~IsEmpty(ret.code)
    /\ ret.result.static_initial.kind = "report"
    /\ ret.result.total_issues = 0
    /\ ret.result.final_code = ret.code

\* C5: each of the four repair strategies, given an issue it does not
\* recognize, whatever its line number and metadata, returns a RepairResult
\* with success = false and repaired_code equal to the input code.
C5_RepairMiss ==
    (strat_out.called /\ ~Recognizes(strat_out.name, strat_out.issue))
        => /\ ~strat_out.out.raised
           /\ ~strat_out.out.success
           /\ strat_out.out.repaired_code = strat_out.code

\* C6: the repair_success that analyze_and_repair computes for its report is
\* true only when at least one repair succeeded and the final failed-test
\* count is strictly below the initial one; it is false whenever the
\* original code parses.
C6_RepairSuccess ==
    (ret.call = "TestDrivenRepairAgent.analyze_and_repair" /\ last_repair.looped)
        => /\ (last_repair.repair_success
                => /\ Len(last_repair.repair_results) > 0
                   /\ last_repair.final_failed < last_repair.initial_failed)
           /\ (ret.code.parses => ~last_repair.repair_success)

C6_Witness ==
    /\ ret.call = "TestDrivenRepairAgent.analyze_and_repair"
    /\ last_repair.looped
    /\ last_repair.repair_success
    /\ ~ret.code.parses
    /\ last_repair.current_code.parses

C8_InvalidCodeFlagged ==
    (/\ Returned
     /\ ret.call = "CoordinatorAgent.analyze_and_repair"
     /\ ret.strategy = "static_only"
     /\ ~ret.code.parses)
        => \/ ret.result.kind = "error"
           \/ ~ret.result.overall_success

\* C9: two decisions on identical AnalysisContext values, by the same or by
\* different engines and after any earlier decisions, give the same strategy
\* and leave the same factor map in last_decision_factors.
C9_Determinism ==
    \A a, b \in dec_log :
        a.context = b.context => a.strategy = b.strategy /\ a.factors = b.factors

C9_Witness ==
    \E a, b, c \in dec_log :
        /\ a.context = probe /\ b.context = probe
        /\ a.engine = 1 /\ b.engine = 2
        /\ c.engine = 1 /\ c.context = EarlierContext
        /\ c.strategy # a.strategy

\* C10: the strategy returned is STATIC_ONLY, TEST_DRIVEN_ONLY or HYBRID, its
\* score is the maximum of the three scores, and every strategy before it in
\* the order static-only, test-driven-only, hybrid scores strictly less.
C10_MaxScore ==
    \A d \in dec_log :
        LET scores == Scores(extract_decision_factors(d.context))
        IN  \E i \in 1..3 :
                /\ d.strategy = StrategyOrder[i]
                /\ \A j \in 1..3 : scores[StrategyOrder[j]] <= scores[d.strategy]
                /\ \A j \in 1..(i - 1) : scores[StrategyOrder[j]] < scores[d.strategy]

C10_Witness ==
    \E d \in dec_log :
        /\ d.context = probe
        /\ d.strategy = "hybrid"
        /\ Scores(d.factors)["static_only"] < Scores(d.factors)["hybrid"]
        /\ Scores(d.factors)["test_driven_only"] < Scores(d.factors)["hybrid"]

\* C11 (as stated): every decision on a context of complexity level LOW
\* returns STATIC_ONLY, whatever the keywords of the code and the file path.
C11_LowIsStatic ==
    \A d \in dec_log :
        d.context.complexity_level = 1 => d.strategy = "static_only"

\* C11 (amended): on a context of complexity level LOW the decision is
\* STATIC_ONLY when the issue-severity factor is below 0.7 and HYBRID when it
\* is 0.7 or more, whatever the file path.
C11_LowBySeverity ==
    \A d \in dec_log :
        d.context.complexity_level = 1 =>
            IF assess_potential_issue_severity(d.context.code) < 14
            THEN d.strategy = "static_only"
            ELSE d.strategy = "hybrid"

C11_Witness ==
    \E d \in dec_log :
        /\ d.context = probe
        /\ d.context.complexity_level = 1
        /\ d.context.code.kw_high = 3 /\ d.context.code.kw_med = 1
        /\ d.context.file_path.given
        /\ d.strategy = "hybrid"

\* C12: the overall score of a report is max(0, 100 - P), P being 5*w per
\* security issue, 2*w per quality issue and 3*w per performance issue with
\* w = 1, 2, 3, 5 for low, medium, high, critical; it lies in 0..100, is 100
\* exactly when the report has no issue, and is 85 for one high-severity
\* security issue alone.
C12_OverallScore ==
    (ret.call = "StaticAnalysisAgent.analyze" /\ ret.result.kind = "report") =>
        LET N(issues, sev) == Cardinality({i \in DOMAIN issues : issues[i].severity = sev})
            W(issues) == N(issues, "low") + 2 * N(issues, "medium")
                         + 3 * N(issues, "high") + 5 * N(issues, "critical")
            sec == ret.result.security_issues
            qual == ret.result.quality_issues
            perf == ret.result.performance_issues
            P == 5 * W(sec) + 2 * W(qual) + 3 * W(perf)
            score == ret.result.overall_score
        IN  /\ score = (IF P > 100 THEN 0 ELSE 100 - P)
            /\ score \in 0..100
            /\ (score = 100) <=> (Len(sec) + Len(qual) + Len(perf) = 0)
            /\ (Len(sec) = 1 /\ sec[1].severity = "high" /\ qual = <<>> /\ perf = <<>>)
                    => score = 85

C12_Witness ==
    /\ ret.call = "StaticAnalysisAgent.analyze"
    /\ ret.result.kind = "report"
    /\ Len(ret.result.security_issues) = 7
    /\ Len(ret.result.quality_issues) = 1
    /\ ret.result.overall_score = 0

\* C13: every TestResults that run_tests returns has total_tests =
\* passed_tests + failed_tests + error_tests, and test_details holds one
\* record per test case, in the order of the input list.
C13_TestTotals ==
    tests.ran =>
        /\ tests.results.total_tests = Len(tests.ran_on)
        /\ tests.results.total_tests
              = tests.results.passed_tests + tests.results.failed_tests
                + tests.results.error_tests
        /\ Len(tests.results.test_details) = Len(tests.ran_on)
        /\ \A i \in DOMAIN tests.ran_on :
              tests.results.test_details[i].test_id = tests.ran_on[i].id

C13_Witness ==
    /\ tests.ran
    /\ tests.source.outcome = "RecursionError"
    /\ Len(tests.ran_on) = 2
    /\ tests.ran_on[1].test_type = "unit"
    /\ tests.ran_on[2].test_type = "integration"
    /\ tests.results.error_tests = 1
    /\ tests.results.passed_tests = 1

\* C14: generate_tests returns at most 50 test cases: for a text that parses,
\* with f function and c class declarations, the first min(50, f + c) cases
\* of the traversal order; for a text that does not parse, one generic case.
C14_TestCap ==
    tests.generations > 0 =>
        LET decls == tests.source.decls
            f == Cardinality({k \in DOMAIN decls : decls[k] = "function"})
            c == Cardinality({k \in DOMAIN decls : decls[k] = "class"})
            n == Len(tests.generated)
        IN  /\ n <= 50
            /\ tests.source.outcome = "ok" =>
                  /\ n = (IF f + c > 50 THEN 50 ELSE f + c)
                  /\ \A k \in 1..n :
                        /\ tests.generated[k].id.node = k
                        /\ tests.generated[k].id.kind
                              = (IF decls[k] = "function" THEN "function" ELSE "class_init")
            /\ tests.source.outcome # "ok" =>
                  /\ n = 1
                  /\ tests.generated[1].id.kind = "generic"

C14_Witness ==
    /\ tests.generations > 0
    /\ tests.source.outcome = "ok"
    /\ Len(tests.source.decls) > 50
    /\ tests.source.decls[1] = "class"
    /\ Len(tests.generated) = 50
    /\ tests.generated[50].id.kind = "function"

\* C15: each add_repair_result call sets the rate of the strategy it names to
\* 0.9*old + 0.1*(1 if success else 0), old being 0.5 when the strategy has no
\* rate yet; one success from the seed gives 0.55 and a failure after it
\* 0.495; the rate stays within [0, 1] and the rates of the other strategies
\* are unchanged.
C15_MovingAverage ==
    [][memory'.last.op = "add_repair_result" =>
        LET st == memory'.last.strategy
            stored == memory.project_memory.success_rates[st]
            old == IF stored = NoRate THEN RateScale \div 2 ELSE stored
            new == memory'.project_memory.success_rates[st]
            hit == IF memory'.last.success THEN RateScale ELSE 0
        IN  /\ 10 * new = 9 * old + hit
            /\ new >= 0 /\ new <= RateScale
            /\ (stored = NoRate /\ memory'.last.success) => 100 * new = 55 * RateScale
            /\ (100 * stored = 55 * RateScale /\ ~memory'.last.success)
                    => 1000 * new = 495 * RateScale
            /\ \A other \in RepairStrategyKeys \ {st} :
                    memory'.project_memory.success_rates[other]
                        = memory.project_memory.success_rates[other]
    ]_vars

C15_Witness ==
    /\ memory.last.op = "add_repair_result"
    /\ memory.last.strategy = "hybrid"
    /\ ~memory.last.success
    /\ 1000 * memory.project_memory.success_rates["hybrid"] = 495 * RateScale
    /\ memory.project_memory.success_rates["static_only"] = 9 * (seed_rate \div 10)

\* C16: after optimize_memory, following any insertions, every long-term
\* memory type holds at most 100 entries, as many as were inserted up to 100,
\* and no entry cut off had a higher (importance, access_count) than an entry
\* that is kept.
C16_RetentionCap ==
    memory.last.op = "optimize_memory" =>
        \A t \in MemoryTypes :
            LET kept == memory.long_term_memory[t]
            IN  /\ Total(kept) <= 100
                /\ Total(kept) = (IF mem_log.inserted[t] > 100 THEN 100
                                  ELSE mem_log.inserted[t])
                /\ \A i \in DOMAIN kept : \A d \in mem_log.dropped[t] :
                        \/ d[1] < kept[i].importance
                        \/ d[1] = kept[i].importance /\ d[2] <= kept[i].access_count

C16_Witness ==
    /\ memory.last.op = "optimize_memory"
    /\ mem_log.inserted["repair"] = 102
    /\ mem_log.dropped["repair"] = {<<5, 0>>}
    /\ memory.long_term_memory["repair"] = <<Run(9, 0, 100)>>

\* C17: clear_memory("conversation") empties the conversation, summary and
\* knowledge-graph memory and leaves project and long-term memory as they
\* were; clear_memory("project") resets the project memory only;
\* clear_memory("long_term") empties the long-term memory only;
\* clear_memory("all") clears all of them.
C17_ClearScopes ==
    [][memory'.last.op = "clear_memory" =>
        LET scope == memory'.last.scope
            conversation_cleared ==
                memory'.messages = 0 /\ memory'.summary = "empty" /\ memory'.kg = 0
            conversation_kept ==
                /\ memory'.messages = memory.messages
                /\ memory'.summary = memory.summary
                /\ memory'.kg = memory.kg
            project_cleared ==
                /\ \A f \in AnalysedFiles : memory'.project_memory.file_analyses[f] = 0
                /\ memory'.project_memory.issue_patterns = 0
                /\ memory'.project_memory.repair_history = {}
                /\ \A st \in RepairStrategyKeys :
                        memory'.project_memory.success_rates[st] = NoRate
            project_kept == memory'.project_memory = memory.project_memory
            long_term_cleared == \A t \in MemoryTypes : memory'.long_term_memory[t] = <<>>
            long_term_kept == memory'.long_term_memory = memory.long_term_memory
        IN  /\ scope = "conversation" => conversation_cleared /\ project_kept /\ long_term_kept
            /\ scope = "project" => conversation_kept /\ project_cleared /\ long_term_kept
            /\ scope = "long_term" => conversation_kept /\ project_kept /\ long_term_cleared
            /\ scope = "all" => conversation_cleared /\ project_cleared /\ long_term_cleared
    ]_vars

C17_Witness ==
    /\ memory.last.op = "clear_memory"
    /\ memory.last.scope = "conversation"
    /\ memory.messages = 0 /\ memory.kg = 0
    /\ memory.project_memory.file_analyses["a.py"] = 1
    /\ memory.project_memory.success_rates["hybrid"] # NoRate
    /\ Total(memory.long_term_memory["conversation"]) = max_long_term_entries

\* C18: when load_config runs on a cleared cache right after save_config
\* wrote an instance, the AgentConfig it returns equals the saved instance
\* field for field.
C18_RoundTrip ==
    config_manager.trip.stage = "loaded" =>
        config_manager.last.returned = config_manager.trip.saved

\* C19: after reset_config the cached configuration and config.json both hold
\* the default configuration, whatever was cached or saved before.
C19_ResetToDefault ==
    config_manager.last.op = "reset_config" =>
        /\ config_manager.cached
        /\ config_manager.cache = DefaultConfig
        /\ config_manager.file = JsonFile(DefaultConfig)

\* C20: once analyze or scan has exited after the coordinator returned a
\* result map, the exit status is 0 whatever the strategy and the number of
\* issues, and with an --output path that can be opened the file holds the
\* complete result map.
C20_ExitStatus ==
    (cli.stage = "exited" /\ cli.returned /\ cli.output # "unwritable") =>
        /\ cli.exit_status = 0
        /\ cli.output = "writable" =>
              (cli.out_file = "complete" /\ cli.written = cli.result)

\* C21: for STATIC_ONLY, TEST_DRIVEN_ONLY or HYBRID the intelligent
\* coordinator returns what CoordinatorAgent.analyze_and_repair returns for
\* the same code and strategy (strategy tag, total_issues, overall_success),
\* not an error map.
C21_SameAsCoordinator ==
    (intelligent.last.n > 0
        /\ intelligent.last.strategy \in {"static_only", "test_driven_only", "hybrid"}) =>
        /\ ~intelligent.last.raised
        /\ intelligent.last.result.kind = "report"
        /\ \E wf \in {Workflow(intelligent.last.strategy, NewAgent, NewAgent,
                              intelligent.last.code).result} :
              /\ intelligent.last.result.strategy = wf.strategy
              /\ intelligent.last.result.total_issues = wf.total_issues
              /\ intelligent.last.result.overall_success = wf.overall_success

\* C22: after n calls with a file path, analysis_count of that path is n and
\* last_analysis is the result of the latest call with it.
C22_AnalysisCount ==
    /\ \A f \in AnalysedFiles :
          intelligent.file_analyses[f].analysis_count = intelligent.made[f]
    /\ (intelligent.last.n > 0 /\ intelligent.last.file_path # None) =>
          intelligent.file_analyses[intelligent.last.file_path].last_analysis
              = intelligent.last.result

\* C23: the repair loop keeps every attempted repair, successful or not:
\* after a call that reached the loop, the list the report's applied_repairs
\* and confidence are computed from has one RepairResult per issue processed.
C23_EveryAttemptRecorded ==
    (ret.call = "TestDrivenRepairAgent.analyze_and_repair" /\ last_repair.looped) =>
        Len(last_repair.repair_results) = Len(last_repair.issues)

\* the code the k-th repair leaves behind, when the issues are taken in the
\* order given and only a successful repair replaces the code
KeptCode(before, r) == IF r.success THEN r.repaired_code ELSE before

CodeAfterStep(before, issue) == KeptCode(before, repair_issue(before, issue))

RECURSIVE CodeAfter(_, _, _)
CodeAfter(issues, code, k) ==
    IF k = 0 THEN code ELSE CodeAfterStep(CodeAfter(issues, code, k - 1), issues[k])

\* the repairs among the first k that reported success
RECURSIVE Successes(_, _, _)
Successes(issues, code, k) ==
    IF k = 0 THEN 0
    ELSE Successes(issues, code, k - 1)
         + (IF repair_issue(CodeAfter(issues, code, k - 1), issues[k]).success THEN 1 ELSE 0)

\* C24: the issues are processed in the order given, each repair on the
\* output of the latest successful earlier one; a repair that fails or raises
\* leaves the code as it was and the loop goes on to the next issue.
C24_RepairOrder ==
    (ret.call = "TestDrivenRepairAgent.analyze_and_repair" /\ last_repair.looped) =>
        /\ last_repair.current_code
              = CodeAfter(last_repair.issues, ret.code, Len(last_repair.issues))
        /\ Len(last_repair.repair_results)
              = Successes(last_repair.issues, ret.code, Len(last_repair.issues))
        /\ \A k \in 1..Len(last_repair.repair_results) :
              last_repair.repair_results[k].success

\* a call whose first repair raised or failed and whose second one succeeded
C24_Witness ==
    /\ ret.call = "TestDrivenRepairAgent.analyze_and_repair"
    /\ last_repair.looped
    /\ Len(last_repair.issues) = 2
    /\ ~repair_issue(ret.code, last_repair.issues[1]).success
    /\ last_repair.strategy_raised
    /\ Len(last_repair.repair_results) = 1
    /\ last_repair.current_code # ret.code

\* C25: when the text does not parse, every unit test's detail has status
\* "failed" and carries the parser's error text, and exactly one logic issue
\* is built per failed detail, its description quoting that text, with
\* severity high, confidence 0.7 and line number 0.
C25_ErrorTextQuoted ==
    (tests.ran /\ tests.source.outcome = "SyntaxError") =>
        /\ \A i \in DOMAIN tests.ran_on :
              tests.ran_on[i].test_type = "unit" =>
                  /\ tests.results.test_details[i].status = "failed"
                  /\ tests.results.test_details[i].error = unit_test_error("SyntaxError")
        /\ \E issues \in {IdentifiedIssues(tests.results.test_details, 1)} :
              /\ Len(issues) = tests.results.failed_tests
              /\ \A i \in DOMAIN issues :
                    /\ issues[i].description = <<"Test failed: ", ParserErrorText>>
                    /\ issues[i].severity = "high"
                    /\ issues[i].confidence = 7
                    /\ issues[i].line_number = 0

\* the sum of the issues_found counts carried by the records of a history
RECURSIVE SumIssuesFound(_)
SumIssuesFound(execution_history) ==
    IF execution_history = <<>> THEN 0
    ELSE (IF Head(execution_history).has_issues_found
          THEN Head(execution_history).issues_found ELSE 0)
         + SumIssuesFound(Tail(execution_history))

\* C26: on every agent, metrics.issues_found is the sum of the issues_found
\* counts carried by the records of its execution history.
C26_IssuesFoundCumulative ==
    /\ static_agent.issues_found = SumIssuesFound(static_agent.execution_history)
    /\ coordinator.issues_found = SumIssuesFound(coordinator.execution_history)

\* C30: every call that returns, with a result or with an error map, has
\* appended exactly one record to the history of the agent it was made on, so
\* the history length (get_agent_status's execution_count) is the number of
\* calls made on that agent.
C30_HistoryCountsCalls ==
    /\ ret.call = "StaticAnalysisAgent.analyze" =>
          Len(static_agent.execution_history) = calls
    /\ ret.call = "TestDrivenRepairAgent.analyze" =>
          Len(repair_agent.execution_history) = calls
    /\ (ret.call = "CoordinatorAgent.analyze_and_repair" /\ ~ret.raised) =>
          Len(coordinator.execution_history) = calls

\* the hybrid workflow has run the repair agent on the analyzers' issues
HybridRepaired ==
    /\ ret.call = "CoordinatorAgent.analyze_and_repair"
    /\ ~ret.raised
    /\ ret.strategy_used = "hybrid"
    /\ ret.repair_ran
    /\ last_repair.looped

\* C27: in the hybrid workflow no security or performance issue of the
\* analyzers is repaired: its strategy returns success false and the code it
\* was given; every kept repair is a line split, and the code changes only
\* when a line_length quality issue was found.
C27_AnalyzerIssuesNotRepaired ==
    HybridRepaired =>
        /\ \A k \in DOMAIN last_repair.issues :
              last_repair.issues[k].issue_type \in {"security", "performance"} =>
                  \E before \in {CodeAfter(last_repair.issues, ret.code, k - 1)} :
                      \E r \in {StrategyRepair(last_repair.issues[k].issue_type, before,
                                               last_repair.issues[k])} :
                          /\ ~r.raised
                          /\ ~r.success
                          /\ r.repaired_code = before
        /\ \A k \in DOMAIN last_repair.repair_results :
              last_repair.repair_results[k].repair_strategy = "quality_formatting"
        /\ last_repair.current_code # ret.code =>
              \E k \in DOMAIN last_repair.issues :
                  last_repair.issues[k].quality_metric = "line_length"

\* a hard-coded password found by the security analyzer, handed to the
\* repair agent and left in the code
C27_Witness ==
    /\ HybridRepaired
    /\ ret.code.lines = <<"pwd">>
    /\ Len(last_repair.issues) = 1
    /\ last_repair.issues[1].vulnerability_type = "hardcoded_credentials"
    /\ last_repair.repair_results = <<>>
    /\ last_repair.current_code = ret.code

\* Which line of the original text each line of the current code comes from:
\* a split puts both halves where the one line was, any other repair keeps
\* the lines in place.
OriginKept(origin, issue, before, r) ==
    IF r.success /\ Len(r.repaired_code.lines) > Len(before.lines)
    THEN SliceAssign(origin, issue.line_number - 1, issue.line_number,
                     <<origin[LineIndex(before, issue.line_number)],
                       origin[LineIndex(before, issue.line_number)]>>)
    ELSE origin

OriginStep(origin, issue, before) ==
    OriginKept(origin, issue, before, repair_issue(before, issue))

RECURSIVE OriginAfter(_, _, _)
OriginAfter(issues, code, k) ==
    IF k = 0 THEN [i \in 1..Len(code.lines) |-> i]
    ELSE OriginStep(OriginAfter(issues, code, k - 1), issues[k],
                    CodeAfter(issues, code, k - 1))

\* C28: in the repair loop of the hybrid workflow each issue's line number,
\* computed by the analyzers on the original text, designates the same source
\* line in the code its repair is applied to, whatever earlier repairs of the
\* same call did.
C28_LineNumbersStable ==
    HybridRepaired =>
        \A k \in DOMAIN last_repair.issues :
            \E before \in {CodeAfter(last_repair.issues, ret.code, k - 1)} :
                /\ LineIndex(before, last_repair.issues[k].line_number) # 0
                /\ OriginAfter(last_repair.issues, ret.code, k - 1)
                        [LineIndex(before, last_repair.issues[k].line_number)]
                      = last_repair.issues[k].line_number

\* C29: whenever the manager holds a cached configuration, its
\* repair_confidence_threshold lies within [0, 1] (0..10 tenths), its timeout
\* is positive and its log_level is one of the valid levels.
C29_CachedConfigValid ==
    config_manager.cached =>
        /\ config_manager.cache.repair_confidence_threshold \in 0..10
        /\ config_manager.cache.timeout > 0
        /\ config_manager.cache.log_level \in valid_levels

====
